---- MODULE Spec2Model ----
(***************************************************************************)
(* Model of cc-view-transcript.js: the API export path                     *)
(* (ApiExporter.extract), the display path (TranscriptProcessor.process,   *)
(* MessageParser, MessageFormatter), the pure text helpers                 *)
(* (extractToolResultText, truncateIfNeeded), SessionResolver.resolve over *)
(* a file system and as overlapping findByPrefix calls,                    *)
(* MetadataExtractor.extract, main, formatCandidates, and                  *)
(* findTranscriptFile of the revision that searched with a shell command.  *)
(***************************************************************************)
EXTENDS Integers, Sequences, FiniteSets, TLC

VARIABLES
    \* ---- ApiExporter.extract ----
    lines,             \* the lines the 'line' handler has been called with
    messages,          \* const messages = []
    pendingAssistant,  \* let pendingAssistant = null
    hasSummaries,      \* let hasSummaries = false
    sessionId,         \* let sessionId = null
    rlClosed,          \* readline Interface.closed
    streamState,       \* "open" | "ended" | "errored" | "crashed"
    promise,           \* "pending" | "resolved" | "rejected"
    result,            \* the value the promise was resolved with
    \* ---- TranscriptProcessor.process / MessageFormatter ----
    options,           \* this.options (the display switches)
    rawLines,          \* the lines the display 'line' handler has been called with
    lineNumber,        \* let lineNumber = 0
    records,           \* what MessageParser.parseLine returned, line by line
    toolCallMap,       \* this.toolCallMap: tool_use_id -> tool_name
    output,            \* what console.log has printed: [line, items]
    displayState,      \* "open" | "ended" | "crashed"
    \* ---- pure helpers applied to drawn inputs ----
    fnInput,           \* the argument of the helper under test
    fnOutput,          \* its return value
    fnDone,            \* whether the helper has been applied
    \* ---- MetadataExtractor.extract ----
    metaLines,         \* the lines the metadata 'line' handler has been called with
    metadata,          \* const metadata = {...}
    metadataExtracted, \* let metadataExtracted = false
    metaState,         \* "open" | "ended" | "errored" | "crashed"
    metaPromise,       \* "pending" | "resolved" | "rejected"
    \* ---- main ----
    argvRefs,          \* the references on the command line, with what they lead to
    apiJson,           \* options.apiJson
    mainPc,            \* "resolving" | "exporting" | "processing" | "exited"
    refIndex,          \* how many references the first loop has handled
    toProcess,         \* const toProcess = []
    uniquePaths,       \* const uniquePaths = [...new Set(toProcess)]
    hasErrors,         \* let hasErrors = false
    fileIndex,         \* how many of uniquePaths the second loop has handled
    exitCode,          \* the exit status of the process
    \* ---- CLI.findTranscriptFile (earlier revision) ----
    ftfSessionId,      \* the sessionId argument
    ftfPc,             \* "start" | "validated" | "checked" | "searching" | "done"
    ftfTrace,          \* the effects on the outside world, in order
    ftfElapsed,        \* milliseconds the search process has run
    ftfOutcome,        \* "pending", the returned value or the error thrown
    \* ---- overlapping SessionResolver.findByPrefix calls ----
    configured,        \* options.includeAgents !== false, as given to the constructor
    thisIncludeAgents, \* this.includeAgents
    callAgentPrefix,   \* per call: searchingForAgent
    callPc,            \* per call: "idle" | "scanning" | "done"
    callOriginal,      \* per call: const originalIncludeAgents
    callPos,           \* per call: the next directory entry of its scan
    callListed,        \* per call: the entries its scan has kept
    callSaw            \* per call: the values of this.includeAgents its scan has read

exportVars == <<lines, messages, pendingAssistant, hasSummaries, sessionId,
                rlClosed, streamState, promise, result>>

displayVars == <<options, rawLines, lineNumber, records, toolCallMap, output,
                 displayState>>

fnVars == <<fnInput, fnOutput, fnDone>>

metaVars == <<metaLines, metadata, metadataExtracted, metaState, metaPromise>>

mainVars == <<argvRefs, apiJson, mainPc, refIndex, toProcess, uniquePaths, hasErrors,
              fileIndex, exitCode>>

ftfVars == <<ftfSessionId, ftfPc, ftfTrace, ftfElapsed, ftfOutcome>>

overlapVars == <<configured, thisIncludeAgents, callAgentPrefix, callPc, callOriginal,
                 callPos, callListed, callSaw>>

cliVars == <<metaVars, mainVars, ftfVars, overlapVars>>

vars == <<exportVars, displayVars, fnVars, cliVars>>

----------------------------------------------------------------------------
\* Bounds

MaxLines == 4          \* lines read from one file (export path)
MaxDisplayLines == 3   \* lines read from one file (display path)
MaxLineLen == 103      \* length of the longest unparseable line
MaxSubParts == 3       \* sub-parts of one tool_result
MaxTextLen == 25       \* length of the longest text given to truncateIfNeeded
MaxThreshold == 12     \* largest maxToolLength tried

----------------------------------------------------------------------------
\* Values

Tok(n, i) == n * 10 + i

NoText == Tok(0, 0)    \* no string content
NoSession == "null"    \* sessionId = null
NoRequest == "undefined"

\* A content part of the input: {type, ...payload}.  The payload is a token
\* that is unique in the file (line number * 10 + index of the part).
Part(t, tok) == [type |-> t, text |-> tok]

\* message.content: a plain string, an array of parts, or absent.
StringContent(tok) == [shape |-> "string", text |-> tok, parts |-> <<>>]
ArrayContent(ps)   == [shape |-> "array", text |-> NoText, parts |-> ps]
AbsentContent      == [shape |-> "absent", text |-> NoText, parts |-> <<>>]


StampParts(types, n) == [i \in 1..Len(types) |-> Part(types[i], Tok(n, i))]

\* One input line of the export path.  valid = FALSE is a line JSON.parse
\* rejects; type "null" is the JSON text `null`.
ExportLineOf(valid, type, side, rid, sid, content) ==
    [valid |-> valid, type |-> type, isSidechain |-> side, requestId |-> rid,
     sessionId |-> sid, role |-> IF type = "user" THEN "user" ELSE type,
     content |-> content]

\* The lines a file can hold at position n.
ExportLines(n) ==
    { ExportLineOf(TRUE, "user", FALSE, NoRequest, "S1", StringContent(Tok(n, 1))),
      ExportLineOf(TRUE, "user", FALSE, NoRequest, "S1",
                   ArrayContent(StampParts(<<"tool_result">>, n))),
      ExportLineOf(TRUE, "user", FALSE, NoRequest, "S1",
                   ArrayContent(StampParts(<<"tool_result", "text">>, n))),
      ExportLineOf(TRUE, "user", TRUE, NoRequest, "S2", StringContent(Tok(n, 1))),
      ExportLineOf(TRUE, "assistant", FALSE, "r1", "S1",
                   ArrayContent(StampParts(<<"text">>, n))),
      ExportLineOf(TRUE, "assistant", FALSE, "r1", "S1",
                   ArrayContent(StampParts(<<"thinking", "tool_use">>, n))),
      ExportLineOf(TRUE, "assistant", FALSE, "r2", "S1",
                   ArrayContent(StampParts(<<"text">>, n))),
      ExportLineOf(TRUE, "assistant", FALSE, "r1", "S1", ArrayContent(<<>>)),
      ExportLineOf(TRUE, "assistant", FALSE, "r2", "S1", AbsentContent),
      ExportLineOf(TRUE, "assistant", TRUE, "r1", "S2",
                   ArrayContent(StampParts(<<"text">>, n))),
      ExportLineOf(TRUE, "system", FALSE, NoRequest, "S1", StringContent(Tok(n, 1))),
      ExportLineOf(TRUE, "summary", FALSE, NoRequest, NoSession, AbsentContent),
      ExportLineOf(TRUE, "file-history-snapshot", FALSE, NoRequest, NoSession,
                   AbsentContent),
      ExportLineOf(TRUE, "null", FALSE, NoRequest, NoSession, AbsentContent),
      ExportLineOf(FALSE, "garbage", FALSE, NoRequest, NoSession, AbsentContent) }

ToolIds == {"t1", "t2"}

NoPending == [open |-> FALSE, requestId |-> NoRequest, content |-> <<>>]

Message(role, content) == [role |-> role, content |-> content]

Last(s) == s[Len(s)]

RECURSIVE ConcatAll(_)
ConcatAll(ss) == IF ss = <<>> THEN <<>> ELSE Head(ss) \o ConcatAll(Tail(ss))

----------------------------------------------------------------------------
\* ApiExporter.extract: the 'line' handler

\* Mutant: the pending turn is pushed twice.
FlushPending_Twice(msgs, pend) ==
    IF pend.open
    THEN msgs \o <<Message("assistant", ArrayContent(pend.content)),
                   Message("assistant", ArrayContent(pend.content))>>
    ELSE msgs

\* messages.push({ role: 'assistant', content: pendingAssistant.content })
FlushPending(msgs, pend) ==
    IF pend.open
    THEN Append(msgs, Message("assistant", ArrayContent(pend.content)))
    ELSE msgs

\* Array.isArray(content) ? content : [{ type: 'text', text: content }]
ContentAsArray(content) ==
    IF content.shape = "array" THEN content.parts
    ELSE <<Part("text", content.text)>>

\* Mutant: consecutive user records are never merged.
MergeOrAppendUser_NeverMerge(msgs, line) ==
    Append(msgs, Message(line.role, line.content))

\* if (lastMsg?.role === 'user') { ...push(...contentAsArray) } else push(parsed.message)
MergeOrAppendUser(msgs, line) ==
    IF Len(msgs) > 0 /\ Last(msgs).role = "user"
    THEN [msgs EXCEPT ![Len(msgs)].content =
              ArrayContent(ContentAsArray(@) \o ContentAsArray(line.content))]
    ELSE Append(msgs, Message(line.role, line.content))

\* Mutant: the pending assistant turn is dropped, not flushed, on a user record.
UserBranch_NoFlush(st, line) ==
    [st EXCEPT !.messages = MergeOrAppendUser(st.messages, line),
               !.pending = NoPending]

\* Mutant: the accumulator is flushed but left open.
UserBranch_KeepsPending(st, line) ==
    [st EXCEPT !.messages = MergeOrAppendUser(FlushPending(st.messages, st.pending), line)]

\* if (parsed.type === 'user') { flush; merge or append }
UserBranch(st, line) ==
    [st EXCEPT !.messages = MergeOrAppendUser(FlushPending(st.messages, st.pending), line),
               !.pending = NoPending]

\* Mutant: the requestId comparison is inverted.
SameResponse_Inverted(pend, line) == pend.open /\ pend.requestId # line.requestId

\* pendingAssistant && pendingAssistant.requestId === requestId
SameResponse(pend, line) == pend.open /\ pend.requestId = line.requestId

\* if (parsed.type === 'assistant' && parsed.message?.content) { ... }
AssistantBranch(st, line) ==
    IF SameResponse(st.pending, line)
    THEN [st EXCEPT !.pending.content = @ \o line.content.parts]
    ELSE [st EXCEPT !.messages = FlushPending(st.messages, st.pending),
                    !.pending = [open |-> TRUE, requestId |-> line.requestId,
                                 content |-> line.content.parts]]

\* Mutant: sidechain records are not skipped.
SkipRules_KeepsSidechain(st, line) ==
    IF line.type = "summary" THEN [skip |-> TRUE, st |-> [st EXCEPT !.hasSummaries = TRUE]]
    ELSE IF line.type = "system" THEN [skip |-> TRUE, st |-> st]
    ELSE [skip |-> FALSE, st |-> st]

\* The skip rules: summary, system, sidechain
SkipRules(st, line) ==
    IF line.type = "summary" THEN [skip |-> TRUE, st |-> [st EXCEPT !.hasSummaries = TRUE]]
    ELSE IF line.type = "system" THEN [skip |-> TRUE, st |-> st]
    ELSE IF line.isSidechain THEN [skip |-> TRUE, st |-> st]
    ELSE [skip |-> FALSE, st |-> st]

\* if (!sessionId && parsed.sessionId) sessionId = parsed.sessionId
CaptureSessionId(st, line) ==
    IF st.sessionId = NoSession /\ line.sessionId # NoSession
    THEN [st EXCEPT !.sessionId = line.sessionId]
    ELSE st

\* The whole handler.  A line JSON.parse rejects returns early; the JSON
\* value null makes `parsed.sessionId` throw a TypeError out of the handler.
OnLine(st, line) ==
    IF ~line.valid THEN st
    ELSE IF line.type = "null" THEN [st EXCEPT !.thrown = TRUE]
    ELSE LET s1 == CaptureSessionId(st, line)
             sk == SkipRules(s1, line)
         IN IF sk.skip THEN sk.st
            ELSE LET s2 == IF line.type = "user" THEN UserBranch(s1, line) ELSE s1
                 IN IF line.type = "assistant" /\ line.content.shape # "absent"
                    THEN AssistantBranch(s2, line)
                    ELSE s2

ExportState ==
    [messages |-> messages, pending |-> pendingAssistant,
     hasSummaries |-> hasSummaries, sessionId |-> sessionId, thrown |-> FALSE]

\* rl.on('close'): flush the final pending assistant message, resolve
CloseHandler(msgs, pend) ==
    [messages |-> FlushPending(msgs, pend)]

\* Mutant: closing the interface from cleanup() runs no 'close' handler.
CleanupEmitsClose_Never(closed) == FALSE

\* cleanup(): rl.close() emits 'close' synchronously unless the interface is
\* already closed, so the 'close' handler runs inside the first cleanup()
\* of a run and settles the promise before the caller of cleanup() goes on.
CleanupEmitsClose(closed) == ~closed

DisplayIdle ==
    /\ options = [showThinking |-> TRUE, showToolCalls |-> TRUE,
                  showToolResults |-> TRUE, showSystemMessages |-> TRUE,
                  truncateTools |-> FALSE, maxToolLength |-> 500]
    /\ rawLines = <<>>
    /\ lineNumber = 0
    /\ records = <<>>
    /\ toolCallMap = [id \in ToolIds |-> ""]
    /\ output = <<>>
    /\ displayState = "open"

ExportIdle ==
    /\ lines = <<>>
    /\ messages = <<>>
    /\ pendingAssistant = NoPending
    /\ hasSummaries = FALSE
    /\ sessionId = NoSession
    /\ rlClosed = FALSE
    /\ streamState = "open"
    /\ promise = "pending"
    /\ result = <<>>

FnIdle ==
    /\ fnInput = <<>>
    /\ fnOutput = <<>>
    /\ fnDone = FALSE

\* const metadata = { sessionId: null, projectPath: null, timestamp: null, ... }
EmptyMetadata ==
    [sessionId |-> NoSession, projectPath |-> NoText, timestamp |-> NoText,
     messageCount |-> 0, toolCallCount |-> 0, hasSubAgents |-> FALSE]

MetaIdle ==
    /\ metaLines = <<>>
    /\ metadata = EmptyMetadata
    /\ metadataExtracted = FALSE
    /\ metaState = "open"
    /\ metaPromise = "pending"

MainIdle ==
    /\ argvRefs = <<>>
    /\ apiJson = FALSE
    /\ mainPc = "resolving"
    /\ refIndex = 0
    /\ toProcess = <<>>
    /\ uniquePaths = <<>>
    /\ hasErrors = FALSE
    /\ fileIndex = 0
    /\ exitCode = 0

FtfIdle ==
    /\ ftfSessionId = <<>>
    /\ ftfPc = "start"
    /\ ftfTrace = <<>>
    /\ ftfElapsed = 0
    /\ ftfOutcome = "pending"

\* the calls made on one SessionResolver
Calls == {1, 2}

OverlapIdle ==
    /\ configured = TRUE
    /\ thisIncludeAgents = TRUE
    /\ callAgentPrefix = [c \in Calls |-> FALSE]
    /\ callPc = [c \in Calls |-> "idle"]
    /\ callOriginal = [c \in Calls |-> TRUE]
    /\ callPos = [c \in Calls |-> 1]
    /\ callListed = [c \in Calls |-> <<>>]
    /\ callSaw = [c \in Calls |-> {}]

CliIdle == MetaIdle /\ MainIdle /\ FtfIdle /\ OverlapIdle

ExportInit == ExportIdle /\ DisplayIdle /\ FnIdle /\ CliIdle

ExportLine ==
    /\ streamState = "open" /\ ~rlClosed
    /\ Len(lines) < MaxLines
    /\ \E line \in ExportLines(Len(lines) + 1) :
         LET st == OnLine(ExportState, line) IN
         /\ lines' = Append(lines, line)
         /\ messages' = st.messages
         /\ pendingAssistant' = st.pending
         /\ hasSummaries' = st.hasSummaries
         /\ sessionId' = st.sessionId
         /\ streamState' = IF st.thrown THEN "crashed" ELSE streamState
    /\ UNCHANGED <<rlClosed, promise, result, displayVars, fnVars, cliVars>>

\* End of input: readline closes itself and emits 'close'.
ExportClose ==
    /\ streamState = "open" /\ ~rlClosed
    /\ LET c == CloseHandler(messages, pendingAssistant) IN
         /\ messages' = c.messages
         /\ result' = c.messages
    /\ rlClosed' = TRUE
    /\ streamState' = "ended"
    /\ promise' = IF promise = "pending" THEN "resolved" ELSE promise
    /\ UNCHANGED <<lines, pendingAssistant, hasSummaries, sessionId, displayVars, fnVars, cliVars>>

\* A read error: the 'error' handler calls cleanup() and then reject(error).
ExportError ==
    /\ streamState = "open" /\ ~rlClosed
    /\ IF CleanupEmitsClose(rlClosed)
       THEN LET c == CloseHandler(messages, pendingAssistant) IN
              /\ messages' = c.messages
              /\ result' = c.messages
              /\ promise' = IF promise = "pending" THEN "resolved" ELSE promise
       ELSE /\ promise' = IF promise = "pending" THEN "rejected" ELSE promise
            /\ UNCHANGED <<messages, result>>
    /\ rlClosed' = TRUE
    /\ streamState' = "errored"
    /\ UNCHANGED <<lines, pendingAssistant, hasSummaries, sessionId, displayVars, fnVars, cliVars>>

ExportNext == ExportLine \/ ExportClose \/ ExportError

ExportSpec == ExportInit /\ [][ExportNext]_vars

----------------------------------------------------------------------------
\* MessageParser.extractToolResultText

\* A string is a sequence of units.  The units of a tool result text are
\* pieces: a text sub-part's text, a separator line, or a bracketed marker.
TextPiece(tok)          == [kind |-> "text", n |-> 0, tok |-> tok, label |-> ""]
SeparatorPiece(n)       == [kind |-> "separator", n |-> n, tok |-> 0, label |-> "Content Block"]
ImagePiece(n, srcType)  == [kind |-> "image", n |-> n, tok |-> 0, label |-> srcType]
OtherPiece(n, upper)    == [kind |-> "other", n |-> n, tok |-> 0, label |-> upper]

\* A sub-part of a tool_result: text = 0 is an empty or missing text,
\* srcType = "" a missing source.type, type = "" a missing type.
SubPart(type, text, srcType) == [type |-> type, text |-> text, srcType |-> srcType]

\* String.prototype.toUpperCase on the type names of the model
ToUpperCase(t) ==
    CASE t = "text" -> "TEXT"
      [] t = "resource" -> "RESOURCE"
      [] t = "image" -> "IMAGE"
      [] OTHER -> t

\* Lines 173-191: what sub-part i (0-based) pushes on textParts
SubPartPieces(contentBlock, i) ==
    IF contentBlock.type = "text" /\ contentBlock.text # 0
    THEN (IF i > 0 THEN <<SeparatorPiece(i + 1)>> ELSE <<>>)
         \o <<TextPiece(contentBlock.text)>>
    ELSE IF contentBlock.type = "image"
    THEN <<ImagePiece(i + 1, IF contentBlock.srcType # "" THEN contentBlock.srcType
                             ELSE "unknown type")>>
    ELSE <<OtherPiece(i + 1, ToUpperCase(IF contentBlock.type # "" THEN contentBlock.type
                                         ELSE "UNKNOWN"))>>

SubPartIsNonText(contentBlock) ==
    ~(contentBlock.type = "text" /\ contentBlock.text # 0)

\* Mutant: only the first sub-part is extracted.
ExtractToolResultText_FirstOnly(content) ==
    IF content.shape = "string"
    THEN [text |-> <<TextPiece(content.text)>>,
          hasMultipleBlocks |-> FALSE, hasNonTextBlocks |-> FALSE]
    ELSE IF content.shape # "array" \/ content.parts = <<>>
    THEN [text |-> <<>>, hasMultipleBlocks |-> FALSE, hasNonTextBlocks |-> FALSE]
    ELSE [text |-> SubPartPieces(content.parts[1], 0),
          hasMultipleBlocks |-> Len(content.parts) > 1,
          hasNonTextBlocks |-> SubPartIsNonText(content.parts[1])]

\* content: [shape |-> "string", text |-> tok] | [shape |-> "array", parts]
\* | anything else (shape "absent")
ExtractToolResultText(content) ==
    IF content.shape = "string"
    THEN [text |-> <<TextPiece(content.text)>>,
          hasMultipleBlocks |-> FALSE, hasNonTextBlocks |-> FALSE]
    ELSE IF content.shape # "array"
    THEN [text |-> <<>>, hasMultipleBlocks |-> FALSE, hasNonTextBlocks |-> FALSE]
    ELSE [text |-> ConcatAll([k \in 1..Len(content.parts) |->
                                 SubPartPieces(content.parts[k], k - 1)]),
          hasMultipleBlocks |-> Len(content.parts) > 1,
          hasNonTextBlocks |-> \E k \in 1..Len(content.parts) :
                                  SubPartIsNonText(content.parts[k])]

\* The sub-parts a tool_result can hold at 0-based position i
SubPartsAt(i) ==
    { SubPart("text", i + 1, ""), SubPart("text", 0, ""),
      SubPart("image", 0, "base64"), SubPart("image", 0, ""),
      SubPart("resource", 0, ""), SubPart("", 0, "") }

RECURSIVE SubPartSeqs(_)
SubPartSeqs(n) ==
    IF n = 0 THEN { <<>> }
    ELSE LET shorter == SubPartSeqs(n - 1)
         IN shorter \cup { Append(ps, sp) : ps \in { q \in shorter : Len(q) = n - 1 },
                                            sp \in SubPartsAt(n - 1) }

ToolResultContents ==
    { StringContent(1), AbsentContent }
      \cup { ArrayContent(ps) : ps \in SubPartSeqs(MaxSubParts) }

ToolResultInit ==
    /\ ExportIdle /\ DisplayIdle /\ CliIdle
    /\ fnInput \in ToolResultContents
    /\ fnOutput = <<>>
    /\ fnDone = FALSE

ApplyExtractToolResultText ==
    /\ ~fnDone
    /\ fnOutput' = ExtractToolResultText(fnInput)
    /\ fnDone' = TRUE
    /\ UNCHANGED <<fnInput, exportVars, displayVars, cliVars>>

ToolResultNext == ApplyExtractToolResultText

ToolResultSpec == ToolResultInit /\ [][ToolResultNext]_vars

----------------------------------------------------------------------------
\* MessageFormatter.truncateIfNeeded

\* '...'
DotPiece == [kind |-> "char", n |-> 0, tok |-> 0, label |-> "."]
Ellipsis == <<DotPiece, DotPiece, DotPiece>>

\* `[Truncated ${label} - ${text.length} total characters]`
TruncationTrailer(label, total) ==
    <<"[Truncated ", label, " - ", total, " total characters]">>

\* Mutant: the trailer states the length that was kept.
TruncateIfNeeded_KeptLength(opts, text, label) ==
    IF ~opts.truncateTools \/ text = <<>> THEN <<text>>
    ELSE IF Len(text) > opts.maxToolLength
    THEN << SubSeq(text, 1, opts.maxToolLength) \o Ellipsis,
            TruncationTrailer(label, opts.maxToolLength) >>
    ELSE <<text>>

\* Returns the lines to add to the output.
TruncateIfNeeded(opts, text, label) ==
    IF ~opts.truncateTools \/ text = <<>> THEN <<text>>
    ELSE IF Len(text) > opts.maxToolLength
    THEN << SubSeq(text, 1, opts.maxToolLength) \o Ellipsis,
            TruncationTrailer(label, Len(text)) >>
    ELSE <<text>>

\* A text of n characters, all different
TextOfLength(n) == [i \in 1..n |-> TextPiece(i)]

TruncateInit ==
    /\ ExportIdle /\ DisplayIdle /\ CliIdle
    /\ \E tt \in BOOLEAN, L \in 1..MaxThreshold, n \in 0..MaxTextLen,
          label \in {"tool result", "message"} :
         fnInput = [opts |-> [truncateTools |-> tt, maxToolLength |-> L],
                    text |-> TextOfLength(n), label |-> label]
    /\ fnOutput = <<>>
    /\ fnDone = FALSE

ApplyTruncateIfNeeded ==
    /\ ~fnDone
    /\ fnOutput' = TruncateIfNeeded(fnInput.opts, fnInput.text, fnInput.label)
    /\ fnDone' = TRUE
    /\ UNCHANGED <<fnInput, exportVars, displayVars, cliVars>>

TruncateNext == ApplyTruncateIfNeeded

TruncateSpec == TruncateInit /\ [][TruncateNext]_vars

----------------------------------------------------------------------------
\* MessageParser: parseLine and extractContent

PreviewLen == 100

Min(a, b) == IF a < b THEN a ELSE b

\* String.prototype.substring(start, end) for 0 <= start <= end
Substring(str, start, end) == SubSeq(str, start + 1, Min(end, Len(str)))

\* Mutant: the preview is the whole line.
ParseLine_WholeLine(line, n) ==
    IF line.valid THEN line.value
    ELSE [json |-> "object", type |-> "parse_error", lineNumber |-> n,
          error |-> line.error, preview |-> line.text, fullLine |-> line.text]

\* try { return JSON.parse(line) } catch (error) { return {type: 'parse_error', ...} }
ParseLine(line, n) ==
    IF line.valid THEN line.value
    ELSE [json |-> "object", type |-> "parse_error", lineNumber |-> n,
          error |-> line.error, preview |-> Substring(line.text, 0, PreviewLen),
          fullLine |-> line.text]

\* message.type; a JSON number or string has no such property
TypeOf(message) == IF message.json = "object" THEN message.type ELSE "undefined"

\* Reading a property of the JSON value null throws a TypeError
ThrowsOnProperty(message) == message.json = "null"

\* The tool names of the model that contain the substring 'agent'
NamesWithAgent == {"subagent_run", "agent"}

\* toolName === 'Task' || toolName?.includes('agent')
IsSubAgent(toolName) == toolName = "Task" \/ toolName \in NamesWithAgent

\* One assistant sub-block: lines 258-285 (a switch with no default case)
AssistantBlock(block) ==
    CASE block.type = "thinking" -> <<[type |-> "thinking", text |-> block.thinking]>>
      [] block.type = "text" -> <<[type |-> "text", text |-> block.text]>>
      [] block.type = "tool_use" ->
           <<[type |-> "tool_call", name |-> block.name, id |-> block.id,
              input |-> block.input, isSubAgent |-> IsSubAgent(block.name)]>>
      [] OTHER -> <<>>

\* message.message?.content || []
ExtractAssistantContent(message) ==
    LET c == message.message.content
    IN IF c.shape = "array"
       THEN ConcatAll([k \in 1..Len(c.parts) |-> AssistantBlock(c.parts[k])])
       ELSE <<>>

\* One part of a user message: lines 308-330 (no final else)
UserBlock(message, block) ==
    IF block.type = "tool_result"
    THEN LET r == ExtractToolResultText(block.content)
         IN <<[type |-> "tool_result", id |-> block.tool_use_id, text |-> r.text,
               isError |-> message.toolUseResult.is_error \/ block.is_error,
               hasMultipleBlocks |-> r.hasMultipleBlocks,
               hasNonTextBlocks |-> r.hasNonTextBlocks]>>
    ELSE IF block.type = "text"
    THEN <<[type |-> "human", text |-> block.text]>>
    ELSE <<>>

ExtractUserContent(message) ==
    LET c == message.message.content
    IN IF c.shape = "string" THEN <<[type |-> "human", text |-> c.text]>>
       ELSE IF c.shape = "array"
       THEN ConcatAll([k \in 1..Len(c.parts) |-> UserBlock(message, c.parts[k])])
       ELSE <<>>

ExtractSystemContent(message) ==
    <<[type |-> "system", text |-> message.content, level |-> message.level]>>

ExtractSummaryContent(message) ==
    <<[type |-> "summary", text |-> message.summary]>>

ExtractParseErrorContent(message) ==
    <<[type |-> "parse_error", lineNumber |-> message.lineNumber,
       error |-> message.error, preview |-> message.preview]>>

\* switch (message.type); defined for every value but null
ExtractContent(message) ==
    CASE TypeOf(message) = "assistant" -> ExtractAssistantContent(message)
      [] TypeOf(message) = "user" -> ExtractUserContent(message)
      [] TypeOf(message) = "system" -> ExtractSystemContent(message)
      [] TypeOf(message) = "summary" -> ExtractSummaryContent(message)
      [] TypeOf(message) = "parse_error" -> ExtractParseErrorContent(message)
      [] OTHER -> <<>>

----------------------------------------------------------------------------
\* MessageFormatter

\* Lines 401-409: remember tool_use_id -> tool_name of an assistant message
RECURSIVE TrackToolCalls(_, _)
TrackToolCalls(map, blocks) ==
    IF blocks = <<>> THEN map
    ELSE LET b == Head(blocks)
             m == IF b.type = "tool_use" THEN [map EXCEPT ![b.id] = b.name] ELSE map
         IN TrackToolCalls(m, Tail(blocks))

\* this.toolCallMap.get(id) || 'Unknown'
ToolNameOf(map, id) == IF map[id] # "" THEN map[id] ELSE "Unknown"

ShouldDisplay(opts, block) ==
    CASE block.type = "thinking" -> opts.showThinking
      [] block.type = "tool_call" -> opts.showToolCalls
      [] block.type = "tool_result" -> opts.showToolResults
      [] block.type = "system" -> opts.showSystemMessages
      [] OTHER -> TRUE

\* Mutant: a hidden tool result leaves no indicator.
FormatFilteredIndicator_SilentResult(opts, map, block) ==
    CASE block.type = "thinking" ->
           <<[form |-> "indicator", type |-> block.type,
              text |-> <<"THINKING BLOCK HIDDEN">>]>>
      [] block.type = "tool_call" ->
           <<[form |-> "indicator", type |-> block.type,
              text |-> <<"TOOL CALL HIDDEN", block.name>>]>>
      [] OTHER -> <<>>

\* The one-line indicator of a hidden block; null (no line) for system blocks
FormatFilteredIndicator(opts, map, block) ==
    CASE block.type = "thinking" ->
           <<[form |-> "indicator", type |-> block.type,
              text |-> <<"THINKING BLOCK HIDDEN">>]>>
      [] block.type = "tool_call" ->
           <<[form |-> "indicator", type |-> block.type,
              text |-> <<"TOOL CALL HIDDEN", block.name>>]>>
      [] block.type = "tool_result" ->
           <<[form |-> "indicator", type |-> block.type,
              text |-> <<"TOOL RESULT HIDDEN",
                         IF block.isError THEN "ERROR" ELSE "SUCCESS",
                         ToolNameOf(map, block.id)>>]>>
      [] OTHER -> <<>>

GetBlockLabel(block) ==
    CASE block.type = "thinking" -> <<"THINKING">>
      [] block.type = "text" -> <<"CLAUDE">>
      [] block.type = "human" -> <<"HUMAN">>
      [] block.type = "summary" -> <<"SUMMARY">>
      [] block.type = "parse_error" -> <<"PARSE ERROR">>
      [] block.type = "tool_call" ->
           IF block.isSubAgent THEN <<"SUB-AGENT CALL">> ELSE <<"TOOL_CALL">>
      [] block.type = "tool_result" ->
           IF block.isError THEN <<"TOOL_ERROR">> ELSE <<"TOOL_RESULT">>
      [] block.type = "system" -> <<"SYSTEM", block.level>>

\* 'null', the text shown for an empty tool result
NullText == <<[kind |-> "char", n |-> 0, tok |-> 0, label |-> "null"]>>

\* The lines below the header: the switch of lines 587-661.  The texts of
\* the model are no JSON documents, so tryPrettyPrintJson returns them as
\* they are; a tool input is held as its JSON text.
BlockBody(opts, map, block) ==
    CASE block.type = "thinking" -> TruncateIfNeeded(opts, block.text, "thinking block")
      [] block.type = "text" -> TruncateIfNeeded(opts, block.text, "response")
      [] block.type = "human" -> TruncateIfNeeded(opts, block.text, "message")
      [] block.type = "system" -> TruncateIfNeeded(opts, block.text, "system message")
      [] block.type = "summary" -> <<block.text>>
      [] block.type = "tool_call" ->
           <<<<"Tool", block.name>>, <<"ID", block.id>>>>
             \o (IF block.isSubAgent THEN <<"Type: SUB-AGENT">> ELSE <<>>)
             \o <<"Input:">>
             \o TruncateIfNeeded(opts, block.input, "tool input")
      [] block.type = "tool_result" ->
           <<<<"Tool", ToolNameOf(map, block.id)>>, <<"ID", block.id>>>>
             \o (IF block.isError THEN <<"Status: ERROR">> ELSE <<>>)
             \o (IF block.hasMultipleBlocks THEN <<"Content: Multiple blocks">> ELSE <<>>)
             \o (IF block.hasNonTextBlocks THEN <<"Note: Contains non-text content">>
                 ELSE <<>>)
             \o TruncateIfNeeded(opts, IF block.text = <<>> THEN NullText ELSE block.text,
                                 "tool result")
      [] block.type = "parse_error" ->
           << <<"Line", block.lineNumber>>, <<"Error", block.error>>,
              <<"Preview", block.preview>> >>

\* Header and body of a block shown in full; never the empty string
FormatBlock(opts, map, block) ==
    [form |-> "full", type |-> block.type, label |-> GetBlockLabel(block),
     body |-> BlockBody(opts, map, block)]

\* Lines 414-429: one entry per block, in order
FormatBlocks(opts, map, blocks) ==
    ConcatAll([k \in 1..Len(blocks) |->
                 IF ~ShouldDisplay(opts, blocks[k])
                 THEN FormatFilteredIndicator(opts, map, blocks[k])
                 ELSE <<FormatBlock(opts, map, blocks[k])>>])

\* format(message, lineNumber): the new toolCallMap and the formatted items
Format(opts, map, message) ==
    LET tracked == IF TypeOf(message) = "assistant"
                      /\ message.message.content.shape = "array"
                   THEN TrackToolCalls(map, message.message.content.parts)
                   ELSE map
    IN [toolCallMap |-> tracked,
        items |-> FormatBlocks(opts, tracked, ExtractContent(message))]

----------------------------------------------------------------------------
\* TranscriptProcessor.process

\* A text of the display path: two units, so that maxToolLength = 1 cuts it
Str(tok) == <<TextPiece(tok), TextPiece(tok + 5)>>

\* message.content of the display path: a string or an array of parts
TextContent(str)   == [shape |-> "string", text |-> str, parts |-> <<>>]
PartsContent(ps)   == [shape |-> "array", text |-> <<>>, parts |-> ps]

ObjectLine(value) == [valid |-> TRUE, text |-> <<>>, error |-> "", value |-> value]

\* A line JSON.parse rejects, of the given length
GarbageLine(len) ==
    [valid |-> FALSE, text |-> [i \in 1..len |-> i % 7], error |-> "SyntaxError",
     value |-> [json |-> "none"]]

UserLine(content, err) ==
    ObjectLine([json |-> "object", type |-> "user", message |-> [content |-> content],
                toolUseResult |-> [is_error |-> err]])

AssistantLine(content) ==
    ObjectLine([json |-> "object", type |-> "assistant",
                message |-> [content |-> content]])

ToolResultPart(id, err, content) ==
    [type |-> "tool_result", tool_use_id |-> id, is_error |-> err, content |-> content]

ToolUsePart(id, name, tok) ==
    [type |-> "tool_use", id |-> id, name |-> name, input |-> Str(tok)]

\* The lines a file can hold at position n.
DisplayLines(n) ==
    { UserLine(TextContent(Str(Tok(n, 1))), FALSE),
      UserLine(PartsContent(<<ToolResultPart("t1", FALSE, StringContent(Tok(n, 1))),
                              [type |-> "text", text |-> Str(Tok(n, 2))]>>), FALSE),
      UserLine(PartsContent(<<ToolResultPart("t2", TRUE,
                                ArrayContent(<<SubPart("text", Tok(n, 1), ""),
                                               SubPart("image", 0, "base64")>>)),
                              [type |-> "image"]>>), FALSE),
      AssistantLine(PartsContent(<<[type |-> "thinking", thinking |-> Str(Tok(n, 1))],
                                   [type |-> "text", text |-> Str(Tok(n, 2))]>>)),
      AssistantLine(PartsContent(<<ToolUsePart("t1", "Task", Tok(n, 1)),
                                   [type |-> "redacted_thinking"]>>)),
      AssistantLine(PartsContent(<<ToolUsePart("t2", "Read", Tok(n, 1))>>)),
      ObjectLine([json |-> "object", type |-> "system", content |-> Str(Tok(n, 1)),
                  level |-> "warning"]),
      ObjectLine([json |-> "object", type |-> "summary", summary |-> Str(Tok(n, 1))]),
      ObjectLine([json |-> "object", type |-> "file-history-snapshot"]),
      ObjectLine([json |-> "null"]),
      ObjectLine([json |-> "number"]),
      GarbageLine(0), GarbageLine(PreviewLen), GarbageLine(MaxLineLen) }

DisplayOptions ==
    { [showThinking |-> a, showToolCalls |-> b, showToolResults |-> c,
       showSystemMessages |-> d, truncateTools |-> t, maxToolLength |-> 1] :
      a, b, c, d, t \in BOOLEAN }

DisplayInit ==
    /\ ExportIdle /\ FnIdle /\ CliIdle
    /\ options \in DisplayOptions
    /\ rawLines = <<>>
    /\ lineNumber = 0
    /\ records = <<>>
    /\ toolCallMap = [id \in ToolIds |-> ""]
    /\ output = <<>>
    /\ displayState = "open"

\* rl.on('line'): count, parse, format, print what is not empty
DisplayLine ==
    /\ displayState = "open"
    /\ Len(rawLines) < MaxDisplayLines
    /\ \E line \in DisplayLines(Len(rawLines) + 1) :
         LET n == lineNumber + 1
             message == ParseLine(line, n)
         IN /\ rawLines' = Append(rawLines, line)
            /\ lineNumber' = n
            /\ records' = Append(records, message)
            /\ IF ThrowsOnProperty(message)
               THEN /\ displayState' = "crashed"
                    /\ UNCHANGED <<toolCallMap, output>>
               ELSE LET f == Format(options, toolCallMap, message)
                    IN /\ toolCallMap' = f.toolCallMap
                       /\ output' = IF f.items # <<>>
                                    THEN Append(output, [line |-> n, items |-> f.items])
                                    ELSE output
                       /\ UNCHANGED displayState
    /\ UNCHANGED <<options, exportVars, fnVars, cliVars>>

\* rl.on('close'): cleanup and resolve
DisplayClose ==
    /\ displayState = "open"
    /\ displayState' = "ended"
    /\ UNCHANGED <<options, rawLines, lineNumber, records, toolCallMap, output,
                   exportVars, fnVars, cliVars>>

DisplayNext == DisplayLine \/ DisplayClose

DisplaySpec == DisplayInit /\ [][DisplayNext]_vars

----------------------------------------------------------------------------
\* Vocabulary of the export properties

Range(s) == { s[i] : i \in 1..Len(s) }

\* t occurs in s as a block of adjacent elements
IsInfix(t, s) ==
    \E k \in 0..(Len(s) - Len(t)) : \A i \in 1..Len(t) : s[k + i] = t[i]

\* The content parts a record carries (a plain string is one text part).
InputParts(line) ==
    IF line.content.shape = "string" THEN <<[type |-> "text", text |-> line.content.text]>>
    ELSE line.content.parts

\* The records the exporter does not skip.
IsTurn(line) ==
    /\ line.valid
    /\ ~line.isSidechain
    /\ \/ line.type = "user"
       \/ line.type = "assistant" /\ line.content.shape = "array"

IsChunk(line) == IsTurn(line) /\ line.type = "assistant"

TurnParts(ls) == ConcatAll([i \in 1..Len(ls) |-> IF IsTurn(ls[i]) THEN InputParts(ls[i]) ELSE <<>>])

MessageParts(m) ==
    IF m.content.shape = "string" THEN <<[type |-> "text", text |-> m.content.text]>>
    ELSE m.content.parts

Flatten(msgs) == ConcatAll([i \in 1..Len(msgs) |-> MessageParts(msgs[i])])

\* The output messages that hold a part of the given sequence
Holders(msgs, parts) ==
    { m \in 1..Len(msgs) : Range(MessageParts(msgs[m])) \cap Range(parts) # {} }

Delivered == promise = "resolved"

\* Lines i < j are chunks of one response with nothing but skipped records
\* and chunks of the same response between them.
SameRun(i, j) ==
    /\ i < j
    /\ IsChunk(lines[i]) /\ IsChunk(lines[j])
    /\ lines[i].requestId = lines[j].requestId
    /\ \A k \in (i + 1)..(j - 1) :
          IsTurn(lines[k]) => IsChunk(lines[k]) /\ lines[k].requestId = lines[i].requestId

NonEmptyChunk(i) == IsChunk(lines[i]) /\ InputParts(lines[i]) # <<>>

\* C1 (as stated): two assistant records with the same requestId anywhere in
\* the file end up in exactly one assistant message, first record's blocks
\* before the second's.
C1_AnywhereOneMessage ==
    Delivered =>
      \A i, j \in 1..Len(lines) :
        (i < j /\ NonEmptyChunk(i) /\ NonEmptyChunk(j)
           /\ lines[i].requestId = lines[j].requestId)
        => /\ Cardinality(Holders(result, InputParts(lines[i]) \o InputParts(lines[j]))) = 1
           /\ \E m \in 1..Len(result) :
                /\ result[m].role = "assistant"
                /\ IsInfix(InputParts(lines[i]), MessageParts(result[m]))
                /\ IsInfix(InputParts(lines[j]), MessageParts(result[m]))

\* C1 (amended): two assistant records with the same requestId that are
\* separated only by skipped records or chunks of the same requestId end up in
\* exactly one assistant message, whose content holds the blocks of the run
\* from the first to the second record in arrival order.
C1_RunOneMessage ==
    Delivered =>
      \A i, j \in 1..Len(lines) :
        (SameRun(i, j) /\ NonEmptyChunk(i) /\ NonEmptyChunk(j))
        => /\ Cardinality(Holders(result, InputParts(lines[i]) \o InputParts(lines[j]))) = 1
           /\ \E m \in 1..Len(result) :
                /\ result[m].role = "assistant"
                /\ IsInfix(TurnParts(SubSeq(lines, i, j)), MessageParts(result[m]))

C1_Witness ==
    /\ Delivered
    /\ \E i, j \in 1..Len(lines) :
         /\ SameRun(i, j) /\ NonEmptyChunk(i) /\ NonEmptyChunk(j)
         /\ j > i + 1
         /\ \E m \in 1..Len(result) :
              MessageParts(result[m]) = InputParts(lines[i]) \o InputParts(lines[j])

\* C2 (as stated): no two adjacent output messages have the same role.
C2_NoAdjacentSameRole ==
    Delivered => \A k \in 1..(Len(result) - 1) : result[k].role # result[k + 1].role

RequestOf(part) == lines[part.text \div 10].requestId

\* C2 (amended): no two adjacent output messages both have role user; two
\* adjacent assistant messages come from responses with different requestIds.
C2_UserTurnsMerged ==
    /\ \A k \in 1..(Len(messages) - 1) :
         ~(messages[k].role = "user" /\ messages[k + 1].role = "user")
    /\ Delivered =>
         \A k \in 1..(Len(result) - 1) :
           LET a == MessageParts(result[k])
               b == MessageParts(result[k + 1])
           IN (result[k].role = "assistant" /\ result[k + 1].role = "assistant"
                 /\ a # <<>> /\ b # <<>>)
              => RequestOf(a[Len(a)]) # RequestOf(b[1])

C2_Witness ==
    /\ Delivered
    /\ \E k \in 1..Len(result) :
         /\ result[k].role = "user"
         /\ \E p, q \in Range(MessageParts(result[k])) : p.text \div 10 # q.text \div 10
    /\ \E k \in 1..(Len(result) - 1) :
         result[k].role = "assistant" /\ result[k + 1].role = "assistant"

C4_PendingDeliveredOnError ==
    (streamState = "errored" /\ pendingAssistant.open) =>
      /\ Delivered
      /\ Len(result) > 0
      /\ Last(result) = Message("assistant", ArrayContent(pendingAssistant.content))
      /\ Flatten(result) = TurnParts(lines)

C4_Witness ==
    /\ streamState = "errored"
    /\ pendingAssistant.open
    /\ Len(pendingAssistant.content) >= 2
    /\ Len(result) >= 2

----------------------------------------------------------------------------
\* Properties of extractToolResultText and truncateIfNeeded

IsMarker(piece) == piece.kind # "text"
IsTextPiece(piece) == piece.kind = "text"
IsTextSubPart(sp) == sp.type = "text" /\ sp.text # 0

MarkerNumbers(text) ==
    LET ms == SelectSeq(text, IsMarker) IN [k \in 1..Len(ms) |-> ms[k].n]

TextTokens(text) ==
    LET ts == SelectSeq(text, IsTextPiece) IN [k \in 1..Len(ts) |-> ts[k].tok]

SubPartTexts(parts) ==
    LET ts == SelectSeq(parts, IsTextSubPart) IN [k \in 1..Len(ts) |-> ts[k].text]

ManySubParts == fnDone /\ fnInput.shape = "array" /\ Len(fnInput.parts) > 1

\* C9 (as stated): the text of a tool_result built from N > 1 sub-parts holds
\* N distinct part markers and every sub-part's contribution in source order.
C9_NMarkers ==
    ManySubParts =>
      /\ Len(MarkerNumbers(fnOutput.text)) = Len(fnInput.parts)
      /\ Cardinality(Range(MarkerNumbers(fnOutput.text))) = Len(fnInput.parts)
      /\ TextTokens(fnOutput.text) = SubPartTexts(fnInput.parts)

\* C9 (amended): the text holds one marker for every sub-part after the
\* first, numbered with the sub-part's 1-based position, in source order; the
\* first sub-part has a marker only when it is not a non-empty text part (N-1
\* or N markers in all); the text of every non-empty text sub-part appears in
\* source order, that of a later sub-part directly after its marker.
C9_LaterPartsMarked ==
    ManySubParts =>
      LET N == Len(fnInput.parts)
          from == IF IsTextSubPart(fnInput.parts[1]) THEN 2 ELSE 1
          out == fnOutput.text
      IN /\ MarkerNumbers(out) = [k \in 1..(N - from + 1) |-> from + k - 1]
         /\ TextTokens(out) = SubPartTexts(fnInput.parts)
         /\ \A i \in 2..N :
              IsTextSubPart(fnInput.parts[i]) =>
                \E k \in 1..(Len(out) - 1) :
                  /\ out[k].kind = "separator" /\ out[k].n = i
                  /\ out[k + 1].kind = "text" /\ out[k + 1].tok = fnInput.parts[i].text
         /\ fnOutput.hasMultipleBlocks

C9_Witness ==
    /\ ManySubParts
    /\ Len(fnInput.parts) = 3
    /\ IsTextSubPart(fnInput.parts[1])
    /\ fnInput.parts[2].type = "image"
    /\ IsTextSubPart(fnInput.parts[3])
    /\ Len(fnOutput.text) = 4

Truncating ==
    fnInput.opts.truncateTools /\ Len(fnInput.text) > fnInput.opts.maxToolLength

\* C10: with truncation enabled and threshold L, a text of length n > L comes
\* back as its first L characters followed by '...', plus a trailer stating
\* n; any other text, and any text with truncation disabled, comes back
\* unchanged with no trailer.
C10_Truncation ==
    fnDone =>
      LET L == fnInput.opts.maxToolLength
          t == fnInput.text
      IN IF Truncating
         THEN /\ Len(fnOutput) = 2
              /\ Len(fnOutput[1]) = L + 3
              /\ \A i \in 1..L : fnOutput[1][i] = t[i]
              /\ \A i \in (L + 1)..(L + 3) : fnOutput[1][i].label = "."
              /\ fnOutput[2][4] = Len(t)
              /\ fnOutput[2][2] = fnInput.label
         ELSE /\ Len(fnOutput) = 1
              /\ fnOutput[1] = t

C10_Witness ==
    /\ fnDone
    /\ fnInput.opts.truncateTools
    /\ fnInput.opts.maxToolLength = 10
    /\ Len(fnInput.text) = 25
    /\ Len(fnOutput) = 2
    /\ fnOutput[2][4] = 25

----------------------------------------------------------------------------
\* Properties of the display path

\* What the formatter printed for line i (nothing when the line printed nothing)
ItemsAt(i) ==
    IF \E k \in 1..Len(output) : output[k].line = i
    THEN output[CHOOSE k \in 1..Len(output) : output[k].line = i].items
    ELSE <<>>

Formatted(i) == ~ThrowsOnProperty(records[i])

PartCount(message) ==
    IF message.message.content.shape = "string" THEN 1
    ELSE Len(message.message.content.parts)

\* C6: every content part of a user or assistant record the formatter is
\* given produces visible output, a full block or a one-line indicator.
C6_EveryPartVisible ==
    \A i \in 1..Len(records) :
      (Formatted(i) /\ TypeOf(records[i]) \in {"user", "assistant"})
        => Len(ItemsAt(i)) = PartCount(records[i])

HiddenWithIndicator(block) ==
    \/ block.type = "thinking" /\ ~options.showThinking
    \/ block.type = "tool_call" /\ ~options.showToolCalls
    \/ block.type = "tool_result" /\ ~options.showToolResults

NotSuppressed(block) == ~(block.type = "system" /\ ~options.showSystemMessages)

\* C8: for the blocks extracted from a record, in order, the formatter emits
\* the full block (header and body) when the block's category is enabled, one
\* indicator when a thinking, tool_call or tool_result block is disabled, and
\* nothing when a system block is disabled; human, text, summary and
\* parse_error blocks are always emitted in full.
C8_BlockRendering ==
    \A i \in 1..Len(records) :
      Formatted(i) =>
        LET kept == SelectSeq(ExtractContent(records[i]), NotSuppressed)
            items == ItemsAt(i)
        IN /\ Len(items) = Len(kept)
           /\ \A k \in 1..Len(kept) :
                /\ items[k].type = kept[k].type
                /\ IF HiddenWithIndicator(kept[k])
                   THEN items[k].form = "indicator" /\ items[k].text # <<>>
                   ELSE /\ items[k].form = "full"
                        /\ items[k].label # <<>>
                        /\ items[k].body # <<>>

C8_Witness ==
    /\ \E i \in 1..Len(records) :
         /\ Len(ItemsAt(i)) = 2
         /\ ItemsAt(i)[1].form = "indicator" /\ ItemsAt(i)[1].type = "tool_result"
         /\ ItemsAt(i)[2].form = "full"
    /\ \E i \in 1..Len(records) :
         Formatted(i) /\ TypeOf(records[i]) = "system" /\ ItemsAt(i) = <<>>

\* C7: a line the exporter cannot parse is accounted for: handling it leaves
\* a trace (a count, a report) in what the exporter returns.
C7_UnparseableAccounted ==
    [][(Len(lines') = Len(lines) + 1 /\ ~lines'[Len(lines')].valid)
         => <<messages, pendingAssistant, hasSummaries, sessionId, streamState>>'
              # <<messages, pendingAssistant, hasSummaries, sessionId, streamState>>]_vars

----------------------------------------------------------------------------
\* SessionResolver: strings are sequences of one-character strings, paths are
\* strings, and the file system is a record the resolver only reads.

MaxMtime == 2          \* modification times of session files are 1..MaxMtime

DotJsonl == <<".", "j", "s", "o", "n", "l">>
AgentDash == <<"a", "g", "e", "n", "t", "-">>

\* [a-zA-Z0-9] restricted to the characters that occur in the model
AlphaNumeric == {"a", "b", "c", "e", "g", "h", "j", "l", "n", "o", "p", "q",
                 "s", "t", "v", "w", "x", "A", "C"}

ToLowerChar(c) == CASE c = "A" -> "a" [] c = "C" -> "c" [] OTHER -> c

ToLowerCase(s) == [i \in 1..Len(s) |-> ToLowerChar(s[i])]

StartsWith(s, p) == Len(p) <= Len(s) /\ SubSeq(s, 1, Len(p)) = p

EndsWith(s, p) == Len(p) <= Len(s) /\ SubSeq(s, Len(s) - Len(p) + 1, Len(s)) = p

Includes(s, c) == \E i \in 1..Len(s) : s[i] = c

\* String.prototype.replace(sub, ''): removes the first occurrence only
RemoveFirst(s, sub) ==
    LET hits == { i \in 1..(Len(s) - Len(sub) + 1) :
                    SubSeq(s, i, i + Len(sub) - 1) = sub }
    IN IF hits = {} THEN s
       ELSE LET i == CHOOSE h \in hits : \A k \in hits : h <= k
            IN SubSeq(s, 1, i - 1) \o SubSeq(s, i + Len(sub), Len(s))

PathJoin(a, b) == a \o <<"/">> \o b

\* path.resolve on normalised input: an absolute path is kept, a relative one
\* is appended to the working directory
PathResolve(cwd, input) == IF input # <<>> /\ Head(input) = "/" THEN input ELSE PathJoin(cwd, input)

ProjectsDir == <<"/", "h">>

EncodeProjectPath(dirPath) ==
    [i \in 1..Len(dirPath) |-> IF dirPath[i] \in AlphaNumeric THEN dirPath[i] ELSE "-"]

\* The two project folders that may exist under the projects root
FolderW == <<"-", "w", "-", "p">>
FolderV == <<"-", "v", "-", "p">>
Folders == {FolderW, FolderV}

\* The directory entries that may exist in them; content is the sessionId of
\* the first record of the file that has one (<<>>: none)
NoParent == <<>>
DirEntries ==
    << [folder |-> FolderW, name |-> <<"a", "b">> \o DotJsonl],
       [folder |-> FolderV, name |-> <<"A", "C">> \o DotJsonl],
       [folder |-> FolderW, name |-> AgentDash \o <<"a">> \o DotJsonl],
       [folder |-> FolderW, name |-> <<"a", "b", ".", "t", "x", "t">>] >>

\* fs.promises.stat(p): "file", "dir", or the error code
StatOf(fs, p) ==
    IF p = fs.node.path THEN fs.node.kind
    ELSE IF \E f \in Folders : p = PathJoin(ProjectsDir, f)
    THEN LET f == CHOOSE g \in Folders : p = PathJoin(ProjectsDir, g)
         IN CASE fs.folders[f] = "absent" -> "ENOENT"
              [] fs.folders[f] = "unstatable" -> "EACCES"
              [] OTHER -> "dir"
    ELSE IF \E i \in 1..Len(DirEntries) :
              p = PathJoin(PathJoin(ProjectsDir, DirEntries[i].folder), DirEntries[i].name)
    THEN LET i == CHOOSE k \in 1..Len(DirEntries) :
                    p = PathJoin(PathJoin(ProjectsDir, DirEntries[k].folder), DirEntries[k].name)
         IN CASE fs.files[i].state \in {"absent", "vanished"} -> "ENOENT"
              [] fs.files[i].state = "unstatable" -> "EACCES"
              [] OTHER -> "file"
    ELSE "ENOENT"

ModifiedOf(fs, p) ==
    LET i == CHOOSE k \in 1..Len(DirEntries) :
               p = PathJoin(PathJoin(ProjectsDir, DirEntries[k].folder), DirEntries[k].name)
    IN fs.files[i].modified

\* fs.promises.readdir(p): the error code, or the entries in directory order
ReaddirOf(fs, p) ==
    IF p = ProjectsDir
    THEN IF fs.root # "ok" THEN [code |-> fs.root, entries |-> <<>>]
         ELSE [code |-> "ok",
               entries |-> SelectSeq(<<FolderW, FolderV>>, LAMBDA f : fs.folders[f] # "absent")]
    ELSE IF \E f \in Folders : p = PathJoin(ProjectsDir, f)
    THEN LET f == CHOOSE g \in Folders : p = PathJoin(ProjectsDir, g)
             present == SelectSeq([i \in 1..Len(DirEntries) |-> i],
                                  LAMBDA i : DirEntries[i].folder = f /\ fs.files[i].state # "absent")
         IN CASE fs.folders[f] = "absent" -> [code |-> "ENOENT", entries |-> <<>>]
              [] fs.folders[f] \in {"unstatable", "unlistable"} -> [code |-> "EACCES", entries |-> <<>>]
              [] OTHER -> [code |-> "ok",
                           entries |-> [k \in 1..Len(present) |-> DirEntries[present[k]].name]]
    ELSE [code |-> "ENOENT", entries |-> <<>>]

\* One line of an agent file: text JSON.parse rejects, the JSON text `null`,
\* or a record with or without a session id.
AgentLine(valid, json, sid) == [valid |-> valid, json |-> json, sessionId |-> sid]

\* What the agent file may hold; readable = FALSE is a file whose read
\* stream fails.
AgentFiles ==
    LET garbage == AgentLine(FALSE, "none", NoParent)
        null == AgentLine(TRUE, "null", NoParent)
        bare == AgentLine(TRUE, "object", NoParent)
        ab == AgentLine(TRUE, "object", <<"a", "b">>)
        ac == AgentLine(TRUE, "object", <<"A", "C">>)
    IN { [readable |-> FALSE, lines |-> <<>>],
         [readable |-> TRUE, lines |-> <<>>],
         [readable |-> TRUE, lines |-> <<ab>>],
         [readable |-> TRUE, lines |-> <<garbage, null, bare, ab, ac>>],
         [readable |-> TRUE, lines |-> <<ac, ab>>],
         [readable |-> TRUE, lines |-> <<garbage, bare>>] }

\* the read stream of an agent file
ContentOf(fs, p) == fs.agentFile

\* for await (const line of rl): the loop stops at the first line that
\* parses to a value with a truthy sessionId; read counts the lines consumed
RECURSIVE FirstSessionId(_)
FirstSessionId(ls) ==
    IF ls = <<>> THEN [value |-> NoParent, read |-> 0]
    ELSE IF Head(ls).valid /\ Head(ls).json = "object" /\ Head(ls).sessionId # NoParent
    THEN [value |-> Head(ls).sessionId, read |-> 1]
    ELSE LET r == FirstSessionId(Tail(ls)) IN [value |-> r.value, read |-> r.read + 1]

\* Mutant: the loop runs to the end of the file and keeps the last hit.
GetAgentParentId_LastHit(fs, filePath) ==
    LET f == ContentOf(fs, filePath)
        hits == SelectSeq(f.lines, LAMBDA l : l.valid /\ l.json = "object" /\ l.sessionId # NoParent)
    IN IF f.readable /\ hits # <<>> THEN hits[Len(hits)].sessionId ELSE NoParent

\* fileExists: ENOENT is false, any other error is rethrown
FileExists(fs, filePath) ==
    LET s == StatOf(fs, filePath)
    IN [threw |-> s \notin {"file", "dir", "ENOENT"}, error |-> s,
        value |-> s = "file", log |-> <<"stat">>]

IsDirectory(fs, dirPath) ==
    LET s == StatOf(fs, dirPath)
    IN [threw |-> s \notin {"file", "dir", "ENOENT"}, error |-> s,
        value |-> s = "dir", log |-> <<"stat">>]

\* getAgentParentId: the first sessionId found in the file, null otherwise;
\* a read failure is caught and leaves null
GetAgentParentId(fs, filePath) ==
    LET f == ContentOf(fs, filePath)
    IN IF f.readable THEN FirstSessionId(f.lines).value ELSE NoParent

\* the catch block of getAgentParentId prints a warning
AgentReadWarnings(fs, filePath) == IF ContentOf(fs, filePath).readable THEN 0 ELSE 1

SessionInfo(fs, projPath, filename) ==
    LET filePath == PathJoin(projPath, filename)
        isAgent == StartsWith(filename, AgentDash)
    IN [path |-> filePath,
        sessionId |-> RemoveFirst(filename, DotJsonl),
        projectDir |-> projPath,
        modified |-> ModifiedOf(fs, filePath),
        isAgent |-> isAgent,
        parentSessionId |-> IF isAgent THEN GetAgentParentId(fs, filePath) ELSE NoParent]

\* the loop of scanProjectDir over the directory entries
RECURSIVE ScanEntries(_, _, _, _)
ScanEntries(fs, includeAgents, projPath, entries) ==
    IF entries = <<>> THEN [sessions |-> <<>>, warnings |-> 0, log |-> <<>>]
    ELSE LET filename == Head(entries)
             rest == ScanEntries(fs, includeAgents, projPath, Tail(entries))
             s == StatOf(fs, PathJoin(projPath, filename))
         IN IF ~EndsWith(filename, DotJsonl) THEN rest
            ELSE IF StartsWith(filename, AgentDash) /\ ~includeAgents THEN rest
            ELSE IF s = "file"
            THEN [sessions |-> <<SessionInfo(fs, projPath, filename)>> \o rest.sessions,
                  warnings |-> rest.warnings
                               + (IF StartsWith(filename, AgentDash)
                                  THEN AgentReadWarnings(fs, PathJoin(projPath, filename)) ELSE 0),
                  log |-> <<"stat">> \o (IF StartsWith(filename, AgentDash) THEN <<"read">> ELSE <<>>)
                          \o rest.log]
            ELSE [sessions |-> rest.sessions,
                  warnings |-> rest.warnings + (IF s = "ENOENT" THEN 0 ELSE 1),
                  log |-> <<"stat">> \o rest.log]

\* scanProjectDir: errors are caught here; a failure other than ENOENT only
\* prints a warning
ScanProjectDir(fs, includeAgents, projPath) ==
    LET dir == ReaddirOf(fs, projPath)
        scan == ScanEntries(fs, includeAgents, projPath, dir.entries)
    IN IF dir.code = "ok"
       THEN [sessions |-> scan.sessions, warnings |-> scan.warnings,
             log |-> <<"readdir">> \o scan.log]
       ELSE [sessions |-> <<>>, warnings |-> IF dir.code = "ENOENT" THEN 0 ELSE 1,
             log |-> <<"readdir">>]

\* Array.prototype.sort((a, b) => b.modified - a.modified): stable
RECURSIVE InsertNewestFirst(_, _)
InsertNewestFirst(sorted, s) ==
    IF sorted = <<>> THEN <<s>>
    ELSE IF Head(sorted).modified >= s.modified
         THEN <<Head(sorted)>> \o InsertNewestFirst(Tail(sorted), s)
         ELSE <<s>> \o sorted

RECURSIVE SortNewestFirst(_)
SortNewestFirst(sessions) ==
    IF sessions = <<>> THEN <<>>
    ELSE InsertNewestFirst(SortNewestFirst(SubSeq(sessions, 1, Len(sessions) - 1)), Last(sessions))

RECURSIVE ScanFolders(_, _, _)
ScanFolders(fs, includeAgents, folders) ==
    IF folders = <<>> THEN [sessions |-> <<>>, warnings |-> 0, log |-> <<>>]
    ELSE LET one == ScanProjectDir(fs, includeAgents, PathJoin(ProjectsDir, Head(folders)))
             rest == ScanFolders(fs, includeAgents, Tail(folders))
         IN [sessions |-> one.sessions \o rest.sessions,
             warnings |-> one.warnings + rest.warnings,
             log |-> one.log \o rest.log]

\* scanSessions: any failure to list the projects root is rethrown
ScanSessions(fs, includeAgents) ==
    LET root == ReaddirOf(fs, ProjectsDir)
        scan == ScanFolders(fs, includeAgents, root.entries)
    IN IF root.code # "ok"
       THEN [threw |-> TRUE, error |-> "Cannot access projects directory",
             sessions |-> <<>>, warnings |-> 0, log |-> <<"readdir">>]
       ELSE [threw |-> FALSE, error |-> "",
             sessions |-> SortNewestFirst(scan.sessions), warnings |-> scan.warnings,
             log |-> <<"readdir">> \o scan.log]

\* Mutant: the agent prefix is recognised case-sensitively.
FindByPrefix_CaseSensitive(fs, opts, prefix) ==
    LET normalizedPrefix == ToLowerCase(prefix)
        searchingForAgent == StartsWith(prefix, AgentDash)
        originalIncludeAgents == opts.includeAgents
        scan == ScanSessions(fs, IF searchingForAgent THEN TRUE ELSE originalIncludeAgents)
    IN [threw |-> scan.threw, error |-> scan.error,
        sessions |-> SelectSeq(scan.sessions,
                               LAMBDA s : StartsWith(ToLowerCase(s.sessionId), normalizedPrefix)),
        warnings |-> scan.warnings, log |-> scan.log,
        includeAgents |-> originalIncludeAgents]

\* findByPrefix: includeAgents is forced on for an agent prefix and restored
\* in the finally block
FindByPrefix(fs, opts, prefix) ==
    LET normalizedPrefix == ToLowerCase(prefix)
        searchingForAgent == StartsWith(normalizedPrefix, AgentDash)
        originalIncludeAgents == opts.includeAgents
        scan == ScanSessions(fs, IF searchingForAgent THEN TRUE ELSE originalIncludeAgents)
    IN [threw |-> scan.threw, error |-> scan.error,
        sessions |-> SelectSeq(scan.sessions,
                               LAMBDA s : StartsWith(ToLowerCase(s.sessionId), normalizedPrefix)),
        warnings |-> scan.warnings, log |-> scan.log,
        includeAgents |-> originalIncludeAgents]

FindByDirectory(fs, opts, dirPath) ==
    LET projPath == PathJoin(ProjectsDir, EncodeProjectPath(dirPath))
        isDir == IsDirectory(fs, projPath)
        scan == ScanProjectDir(fs, opts.includeAgents, projPath)
    IN IF isDir.threw
       THEN [threw |-> TRUE, error |-> isDir.error, sessions |-> <<>>, warnings |-> 0,
             log |-> isDir.log]
       ELSE IF ~isDir.value
       THEN [threw |-> FALSE, error |-> "", sessions |-> <<>>, warnings |-> 0, log |-> isDir.log]
       ELSE [threw |-> FALSE, error |-> "", sessions |-> SortNewestFirst(scan.sessions),
             warnings |-> scan.warnings, log |-> isDir.log \o scan.log]

NotFoundResult(input) == [type |-> "not_found", input |-> input]

ErrorResult(input, error) == [type |-> "error", input |-> input, error |-> error]

FileResult(filePath) == [type |-> "file", path |-> filePath]

HandleCandidates_OneIsCandidate(latest, sessions, input) ==
    IF Len(sessions) = 0 THEN NotFoundResult(input)
    ELSE IF latest
    THEN [type |-> "match", path |-> sessions[1].path, session |-> sessions[1]]
    ELSE [type |-> "candidates", candidates |-> sessions]

HandleCandidates(latest, sessions, input) ==
    IF Len(sessions) = 0 THEN NotFoundResult(input)
    ELSE IF Len(sessions) = 1 \/ latest
    THEN [type |-> "match", path |-> sessions[1].path, session |-> sessions[1]]
    ELSE [type |-> "candidates", candidates |-> sessions]

HasSeparator_Never(input) == FALSE

HasSeparator(input) == Includes(input, "/") \/ Includes(input, "\\")

\* a lookup (findByDirectory or findByPrefix) followed by handleCandidates;
\* a throw ends in the catch block of resolve
Looked(opts, input, found, before) ==
    IF found.threw
    THEN [result |-> ErrorResult(input, found.error), warnings |-> 0, log |-> before \o found.log]
    ELSE [result |-> HandleCandidates(opts.latest, found.sessions, input),
          warnings |-> found.warnings, log |-> before \o found.log]

Resolve(fs, opts, cwd, input) ==
    LET resolved == PathResolve(cwd, input)
        asFile == FileExists(fs, resolved)
        asDir == IsDirectory(fs, resolved)
        Thrown(op, before) ==
            [result |-> ErrorResult(input, op.error), warnings |-> 0, log |-> before \o op.log]
    IN IF EndsWith(input, DotJsonl)
       THEN IF asFile.threw THEN Thrown(asFile, <<>>)
            ELSE [result |-> IF asFile.value THEN FileResult(resolved) ELSE NotFoundResult(input),
                  warnings |-> 0, log |-> asFile.log]
       ELSE IF HasSeparator(input)
       THEN IF asFile.threw THEN Thrown(asFile, <<>>)
            ELSE IF asFile.value
            THEN [result |-> FileResult(resolved), warnings |-> 0, log |-> asFile.log]
            ELSE IF asDir.threw THEN Thrown(asDir, asFile.log)
            ELSE IF asDir.value
            THEN Looked(opts, input, FindByDirectory(fs, opts, resolved), asFile.log \o asDir.log)
            ELSE [result |-> NotFoundResult(input), warnings |-> 0, log |-> asFile.log \o asDir.log]
       ELSE IF asDir.threw THEN Thrown(asDir, <<>>)
       ELSE IF asDir.value
       THEN Looked(opts, input, FindByDirectory(fs, opts, resolved), asDir.log)
       ELSE Looked(opts, input, FindByPrefix(fs, opts, input), asDir.log)

\* The references tried, the working directories, and the file systems
Refs ==
    { <<"p">>, <<"/", "w", "/", "p">>, <<"p", "\\", "q">>,
      <<"/", "w", "/", "s">> \o DotJsonl, <<"s">> \o DotJsonl,
      <<"a">>, <<"a", "b">>, <<"A">>, AgentDash, <<"A", "g", "e", "n", "t", "-">>,
      <<"x">>, <<"a", ";">> }

Cwds == { <<"/", "w">>, <<"/", "v">> }

NodeKinds == {"file", "dir", "ENOENT", "EACCES"}

FolderStates == {"absent", "ok", "unlistable", "unstatable"}

AbsentFile == [state |-> "absent", modified |-> 0]

FileStates ==
    {AbsentFile, [state |-> "vanished", modified |-> 0], [state |-> "unstatable", modified |-> 0]}
    \cup { [state |-> "ok", modified |-> m] : m \in 1..MaxMtime }

\* What may be under the projects root: nothing when the root is missing,
\* files only in folders that can be listed
ProjectTrees ==
    { [root |-> "ENOENT", folders |-> [f \in Folders |-> "absent"],
       files |-> [i \in 1..Len(DirEntries) |-> AbsentFile]] }
    \cup
    UNION { { [root |-> r, folders |-> fo, files |-> fi] :
              fi \in { g \in [1..Len(DirEntries) -> FileStates] :
                        \A i \in 1..Len(DirEntries) :
                          /\ fo[DirEntries[i].folder] # "ok" => g[i] = AbsentFile
                          /\ ~EndsWith(DirEntries[i].name, DotJsonl) /\ fo[DirEntries[i].folder] = "ok"
                               => g[i] = [state |-> "ok", modified |-> 1] } } :
            r \in {"ok", "EACCES"}, fo \in [Folders -> FolderStates] }

ResolverOptions == [includeAgents : BOOLEAN, latest : BOOLEAN]

ResolveInit ==
    /\ ExportIdle /\ DisplayIdle /\ CliIdle
    /\ \E input \in Refs, cwd \in Cwds, kind \in NodeKinds, tree \in ProjectTrees,
          opts \in ResolverOptions, agentFile \in AgentFiles :
         /\ (\E i \in 1..Len(DirEntries) :
               StartsWith(DirEntries[i].name, AgentDash) /\ tree.files[i].state = "ok")
              \/ agentFile = [readable |-> TRUE, lines |-> <<>>]
         /\ fnInput = [fs |-> [node |-> [path |-> PathResolve(cwd, input), kind |-> kind],
                               root |-> tree.root, folders |-> tree.folders,
                               files |-> tree.files, agentFile |-> agentFile],
                       options |-> opts, cwd |-> cwd, input |-> input]
    /\ fnOutput = <<>>
    /\ fnDone = FALSE

ApplyResolve ==
    /\ ~fnDone
    /\ fnOutput' = Resolve(fnInput.fs, fnInput.options, fnInput.cwd, fnInput.input)
    /\ fnDone' = TRUE
    /\ UNCHANGED <<fnInput, exportVars, displayVars, cliVars>>

ResolveNext == ApplyResolve

ResolveSpec == ResolveInit /\ [][ResolveNext]_vars

----------------------------------------------------------------------------
\* Vocabulary of the resolver properties

Resolved == PathResolve(fnInput.cwd, fnInput.input)

RefKind == fnInput.fs.node.kind

\* the session files that exist and can be read, as the resolver describes them
ReadableSessions ==
    { SessionInfo(fnInput.fs, PathJoin(ProjectsDir, DirEntries[i].folder), DirEntries[i].name) :
        i \in { k \in 1..Len(DirEntries) :
                  /\ EndsWith(DirEntries[k].name, DotJsonl)
                  /\ fnInput.fs.root # "ENOENT"
                  /\ fnInput.fs.folders[DirEntries[k].folder] = "ok"
                  /\ fnInput.fs.files[k].state = "ok" } }

DirectoryScan ==
    Looked(fnInput.options, fnInput.input,
           FindByDirectory(fnInput.fs, fnInput.options, Resolved), <<>>).result

PrefixSearch ==
    Looked(fnInput.options, fnInput.input,
           FindByPrefix(fnInput.fs, fnInput.options, fnInput.input), <<>>).result

\* C12: a reference is classified by the first rule that applies: the .jsonl
\* suffix, then a path separator, then an existing directory, then the prefix
\* search; and a full path to an existing file is a direct file in every
\* working directory
C12_RulePriority ==
    fnDone /\ RefKind # "EACCES" =>
      LET r == fnOutput.result IN
      /\ EndsWith(fnInput.input, DotJsonl) =>
           r = IF RefKind = "file" THEN FileResult(Resolved) ELSE NotFoundResult(fnInput.input)
      /\ ~EndsWith(fnInput.input, DotJsonl)
           /\ (Includes(fnInput.input, "/") \/ Includes(fnInput.input, "\\")) =>
           r = CASE RefKind = "file" -> FileResult(Resolved)
                 [] RefKind = "dir" -> DirectoryScan
                 [] OTHER -> NotFoundResult(fnInput.input)
      /\ ~EndsWith(fnInput.input, DotJsonl)
           /\ ~(Includes(fnInput.input, "/") \/ Includes(fnInput.input, "\\")) =>
           r = IF RefKind = "dir" THEN DirectoryScan ELSE PrefixSearch
      /\ Head(fnInput.input) = "/" /\ RefKind = "file" =>
           \A cwd \in Cwds :
             Resolve(fnInput.fs, fnInput.options, cwd, fnInput.input).result
               = FileResult(fnInput.input)

C12_Witness ==
    /\ fnDone
    /\ Includes(fnInput.input, "/")
    /\ ~EndsWith(fnInput.input, DotJsonl)
    /\ RefKind = "dir"
    /\ fnOutput.result.type = "candidates"

\* the reference reaches the prefix search (rule 4)
ByPrefix ==
    /\ ~EndsWith(fnInput.input, DotJsonl)
    /\ ~Includes(fnInput.input, "/") /\ ~Includes(fnInput.input, "\\")
    /\ RefKind \in {"file", "ENOENT"}

\* nothing in the file system fails with anything but "does not exist"
NoPermissionFailure ==
    /\ RefKind # "EACCES"
    /\ fnInput.fs.root # "EACCES"
    /\ \A f \in Folders : fnInput.fs.folders[f] \in {"absent", "ok"}
    /\ \A i \in 1..Len(DirEntries) : fnInput.fs.files[i].state # "unstatable"

\* the session files under the projects root whose id starts with the
\* reference, case-insensitively
PrefixMatches ==
    { i \in 1..Len(DirEntries) :
        /\ EndsWith(DirEntries[i].name, DotJsonl)
        /\ fnInput.fs.files[i].state = "ok"
        /\ StartsWith(ToLowerCase(RemoveFirst(DirEntries[i].name, DotJsonl)),
                      ToLowerCase(fnInput.input)) }

PathOfEntry(i) == PathJoin(PathJoin(ProjectsDir, DirEntries[i].folder), DirEntries[i].name)

NewestFirst(sessions) ==
    \A i, j \in 1..Len(sessions) : i < j => sessions[i].modified >= sessions[j].modified

\* C13: a prefix search returns a match for exactly one matching session id,
\* the candidates newest first for several (the most recent one as a match
\* under auto-pick), and not_found for none
C13_PrefixOutcome ==
    fnDone /\ ByPrefix /\ NoPermissionFailure =>
      LET r == fnOutput.result
          n == Cardinality(PrefixMatches)
      IN /\ n = 1 => r.type = "match" /\ \E i \in PrefixMatches : r.path = PathOfEntry(i)
         /\ n >= 2 /\ ~fnInput.options.latest =>
              /\ r.type = "candidates"
              /\ { s.path : s \in Range(r.candidates) } = { PathOfEntry(i) : i \in PrefixMatches }
              /\ Len(r.candidates) = n
              /\ NewestFirst(r.candidates)
         /\ n >= 2 /\ fnInput.options.latest =>
              /\ r.type = "match"
              /\ \E i \in PrefixMatches :
                   /\ r.path = PathOfEntry(i)
                   /\ \A k \in PrefixMatches :
                        fnInput.fs.files[i].modified >= fnInput.fs.files[k].modified
         /\ n = 0 => r.type = "not_found"

\* C14: when everything the resolver looks at either exists or does not
\* exist, the result is never the error variant
C14_MissingIsNotFound ==
    fnDone /\ NoPermissionFailure => fnOutput.result.type # "error"

\* C15: when a step of the resolution failed with something other than
\* "does not exist", the result is the error variant
C15_FailureIsError ==
    fnDone /\ fnOutput.warnings > 0 => fnOutput.result.type = "error"

----------------------------------------------------------------------------
\* CLI.findTranscriptFile of the revision that searched with a shell command

MaxIdLen == 2          \* length of the longest session id tried

SearchTimeoutMs == 30000

TickMs == 10000        \* the search process is observed every TickMs

\* the characters session ids are built from, shell metacharacters included
IdChars == {"a", "-", "_", ";", "$"}

\* /^[a-zA-Z0-9_-]+$/
SessionIdChars_WithSemicolon == AlphaNumeric \cup {"_", "-", ";"}

SessionIdChars == AlphaNumeric \cup {"_", "-"}

ValidSessionId(id) == id # <<>> /\ \A i \in 1..Len(id) : id[i] \in SessionIdChars

SessionIds == UNION { [1..n -> IdChars] : n \in 0..MaxIdLen }

FtfInit ==
    /\ ExportIdle /\ DisplayIdle /\ FnIdle /\ MetaIdle /\ MainIdle /\ OverlapIdle
    /\ ftfSessionId \in SessionIds
    /\ ftfPc = "start"
    /\ ftfTrace = <<>>
    /\ ftfElapsed = 0
    /\ ftfOutcome = "pending"

FtfUntouched ==
    UNCHANGED <<ftfSessionId, exportVars, displayVars, fnVars, metaVars, mainVars, overlapVars>>

\* if (!validSessionIdPattern.test(sessionId)) throw new Error('Invalid session ID format')
FtfValidate ==
    /\ ftfPc = "start"
    /\ IF ValidSessionId(ftfSessionId)
       THEN ftfPc' = "validated" /\ UNCHANGED ftfOutcome
       ELSE ftfPc' = "done" /\ ftfOutcome' = "invalid_session_id"
    /\ UNCHANGED <<ftfTrace, ftfElapsed>>
    /\ FtfUntouched

\* if (!fs.existsSync(projectsDir)) throw new Error('projects directory not found')
FtfCheckProjectsDir ==
    /\ ftfPc = "validated"
    /\ ftfTrace' = Append(ftfTrace, "existsSync")
    /\ \E exists \in BOOLEAN :
         IF exists
         THEN ftfPc' = "checked" /\ UNCHANGED ftfOutcome
         ELSE ftfPc' = "done" /\ ftfOutcome' = "projects_dir_not_found"
    /\ UNCHANGED ftfElapsed
    /\ FtfUntouched

\* execAsync(`find "${projectsDir}" -name "${sessionId}.jsonl" ...`, { timeout: 30000 })
FtfSpawn ==
    /\ ftfPc = "checked"
    /\ ftfTrace' = Append(ftfTrace, "exec")
    /\ ftfPc' = "searching"
    /\ UNCHANGED <<ftfElapsed, ftfOutcome>>
    /\ FtfUntouched

\* the search process runs on
FtfTick ==
    /\ ftfPc = "searching"
    /\ ftfElapsed < SearchTimeoutMs
    /\ ftfElapsed' = Min(ftfElapsed + TickMs, SearchTimeoutMs)
    /\ UNCHANGED <<ftfPc, ftfTrace, ftfOutcome>>
    /\ FtfUntouched

\* the search process ends by itself: a path, nothing, a permission error in
\* stderr, or a failure of the command
FtfSearchEnds ==
    /\ ftfPc = "searching"
    /\ ftfElapsed < SearchTimeoutMs
    /\ \E outcome \in {"path", "null", "permission_denied", "search_failed"} :
         ftfOutcome' = outcome
    /\ ftfPc' = "done"
    /\ UNCHANGED <<ftfTrace, ftfElapsed>>
    /\ FtfUntouched

\* the timeout of exec kills the search process: error.killed
FtfTimeout ==
    /\ ftfPc = "searching"
    /\ ftfElapsed >= SearchTimeoutMs
    /\ ftfTrace' = Append(ftfTrace, "kill")
    /\ ftfOutcome' = "timed_out"
    /\ ftfPc' = "done"
    /\ UNCHANGED ftfElapsed
    /\ FtfUntouched

FtfNext ==
    \/ FtfValidate \/ FtfCheckProjectsDir \/ FtfSpawn \/ FtfTick \/ FtfSearchEnds
    \/ FtfTimeout

FtfSpec == FtfInit /\ [][FtfNext]_vars

\* C18: the session id reaches the shell only if it matches the allow-list;
\* any other id is rejected before the projects directory is looked at and
\* before a process is spawned; and the search never runs past its timeout
C18_ValidatedBeforeShell ==
    /\ Includes(ftfTrace, "exec") =>
         /\ ftfSessionId # <<>>
         /\ \A i \in 1..Len(ftfSessionId) : ftfSessionId[i] \in {"a", "-", "_"}
    /\ (ftfSessionId = <<>> \/ \E i \in 1..Len(ftfSessionId) : ftfSessionId[i] \in {";", "$"}) =>
         /\ ftfTrace = <<>>
         /\ ftfPc = "done" => ftfOutcome = "invalid_session_id"
    /\ ftfPc = "searching" => ftfElapsed <= SearchTimeoutMs
    /\ ftfElapsed >= SearchTimeoutMs /\ ftfPc = "done" => ftfOutcome = "timed_out"

C18_Witness ==
    /\ ftfPc = "done"
    /\ ftfOutcome = "timed_out"
    /\ Len(ftfSessionId) = MaxIdLen

\* C19: a session-id-like reference with a character outside the allow-list
\* is rejected with an error before any file system access
C19_InvalidRejectedBeforeIO ==
    fnDone /\ ~EndsWith(fnInput.input, DotJsonl) /\ ~HasSeparator(fnInput.input)
           /\ ~ValidSessionId(fnInput.input) =>
      /\ fnOutput.result.type = "error"
      /\ fnOutput.log = <<>>

----------------------------------------------------------------------------
\* MetadataExtractor.extract

MaxMetaLines == 3      \* lines read from one file (metadata pass)

MetaRecord(type, sid, n, content) ==
    ObjectLine([json |-> "object", type |-> type, sessionId |-> sid,
                timestamp |-> Tok(n, 1), cwd |-> Tok(n, 2),
                message |-> [content |-> content]])

\* The lines a file can hold at position n; a record without sessionId has ""
MetaLines(n) ==
    { MetaRecord("user", "s1", n, TextContent(Str(Tok(n, 3)))),
      MetaRecord("user", "", n, TextContent(Str(Tok(n, 3)))),
      MetaRecord("user", "s1", n, PartsContent(<<ToolUsePart("t1", "Task", Tok(n, 3))>>)),
      MetaRecord("assistant", "s2", n,
                 PartsContent(<<ToolUsePart("t1", "Task", Tok(n, 3)),
                                [type |-> "text", text |-> Str(Tok(n, 4))]>>)),
      MetaRecord("assistant", "s1", n,
                 PartsContent(<<ToolUsePart("t1", "Read", Tok(n, 3)),
                                ToolUsePart("t2", "subagent_run", Tok(n, 4))>>)),
      MetaRecord("assistant", "", n, PartsContent(<<ToolUsePart("t2", "Read", Tok(n, 3))>>)),
      MetaRecord("assistant", "s1", n, [shape |-> "absent", text |-> <<>>, parts |-> <<>>]),
      MetaRecord("system", "s2", n, TextContent(Str(Tok(n, 3)))),
      MetaRecord("summary", "s2", n, PartsContent(<<ToolUsePart("t1", "Task", Tok(n, 3))>>)),
      MetaRecord("file-history-snapshot", "s2", n,
                 PartsContent(<<ToolUsePart("t1", "agent", Tok(n, 3))>>)),
      ObjectLine([json |-> "null"]),
      ObjectLine([json |-> "number"]),
      GarbageLine(MaxLineLen) }

IsCounted_WithSummary(message) ==
    TypeOf(message) \in {"user", "assistant", "system", "summary"}

\* ['user', 'assistant', 'system'].includes(message.type)
IsCounted(message) == TypeOf(message) \in {"user", "assistant", "system"}

\* for (const block of content): count tool_use blocks, look for sub-agents
RECURSIVE CountToolCalls(_, _)
CountToolCalls(md, blocks) ==
    IF blocks = <<>> THEN md
    ELSE LET block == Head(blocks)
             next == IF block.type = "tool_use"
                     THEN [md EXCEPT !.toolCallCount = @ + 1,
                                     !.hasSubAgents = @ \/ IsSubAgent(block.name)]
                     ELSE md
         IN CountToolCalls(next, Tail(blocks))

ShouldCapture_Overwriting(extracted, message) == message.sessionId # ""

\* if (!metadataExtracted && message.sessionId)
ShouldCapture(extracted, message) == ~extracted /\ message.sessionId # ""

\* the 'line' handler of extract
MetaOnLine(md, extracted, line, n) ==
    LET message == ParseLine(line, n)
        counted == [md EXCEPT !.messageCount = @ + 1]
        capture == ShouldCapture(extracted, message)
        captured == IF capture
                    THEN [counted EXCEPT !.sessionId = message.sessionId,
                                         !.timestamp = message.timestamp,
                                         !.projectPath = message.cwd]
                    ELSE counted
        content == IF message.message.content.shape = "array"
                   THEN message.message.content.parts ELSE <<>>
    IN IF ThrowsOnProperty(message)
       THEN [metadata |-> md, extracted |-> extracted, thrown |-> TRUE]
       ELSE IF ~IsCounted(message)
       THEN [metadata |-> md, extracted |-> extracted, thrown |-> FALSE]
       ELSE [metadata |-> IF message.type = "assistant"
                          THEN CountToolCalls(captured, content) ELSE captured,
             extracted |-> extracted \/ capture, thrown |-> FALSE]

MetaInit ==
    /\ ExportIdle /\ DisplayIdle /\ FnIdle /\ MainIdle /\ FtfIdle /\ OverlapIdle
    /\ MetaIdle

MetaUntouched == UNCHANGED <<exportVars, displayVars, fnVars, mainVars, ftfVars, overlapVars>>

MetaLine ==
    /\ metaState = "open"
    /\ Len(metaLines) < MaxMetaLines
    /\ \E line \in MetaLines(Len(metaLines) + 1) :
         LET st == MetaOnLine(metadata, metadataExtracted, line, Len(metaLines) + 1) IN
         /\ metaLines' = Append(metaLines, line)
         /\ metadata' = st.metadata
         /\ metadataExtracted' = st.extracted
         /\ metaState' = IF st.thrown THEN "crashed" ELSE metaState
    /\ UNCHANGED metaPromise
    /\ MetaUntouched

\* rl.on('close'): cleanup(); resolve(metadata)
MetaClose ==
    /\ metaState = "open"
    /\ metaState' = "ended"
    /\ metaPromise' = "resolved"
    /\ UNCHANGED <<metaLines, metadata, metadataExtracted>>
    /\ MetaUntouched

\* a read error: cleanup() closes the reader, whose 'close' handler resolves
\* before reject(error) is reached
MetaError ==
    /\ metaState = "open"
    /\ metaState' = "errored"
    /\ metaPromise' = IF CleanupEmitsClose(FALSE) THEN "resolved" ELSE "rejected"
    /\ UNCHANGED <<metaLines, metadata, metadataExtracted>>
    /\ MetaUntouched

MetaNext == MetaLine \/ MetaClose \/ MetaError

MetaSpec == MetaInit /\ [][MetaNext]_vars

----------------------------------------------------------------------------
\* Vocabulary of the metadata properties

IsRecordOf(line, types) ==
    line.valid /\ line.value.json = "object" /\ line.value.type \in types

\* the tool_use sub-blocks of the assistant records read so far: <<line, position>>
ToolUseBlocks ==
    { <<i, k>> \in (1..Len(metaLines)) \X (1..2) :
        /\ IsRecordOf(metaLines[i], {"assistant"})
        /\ metaLines[i].value.message.content.shape = "array"
        /\ k <= Len(metaLines[i].value.message.content.parts)
        /\ metaLines[i].value.message.content.parts[k].type = "tool_use" }

ToolUseName(b) == metaLines[b[1]].value.message.content.parts[b[2]].name

----------------------------------------------------------------------------
\* C17: once reading has stopped (end of input, read error, or an exception
\* in the 'line' handler) the line reader has been closed and the promise
\* has settled
C17_ReleasedAndSettled ==
    streamState # "open" => rlClosed /\ promise # "pending"

----------------------------------------------------------------------------
\* main: resolve every reference, then export or display every resolved file

MaxRefs == 2           \* references on one command line

FilePaths == {"f1", "f2"}

\* what resolver.resolve returns for a reference, and how the promise of
\* extract / process settles for the file it leads to
RefOutcomes ==
    [resolves : {"file", "match"}, path : FilePaths, settles : {"resolved", "rejected"}]
    \cup [resolves : {"candidates", "not_found", "error"}, path : {""}, settles : {"resolved"}]

CommandLines ==
    { refs \in UNION { [1..n -> RefOutcomes] : n \in 0..MaxRefs } :
        \A i, j \in 1..Len(refs) : refs[i].path = refs[j].path => refs[i].settles = refs[j].settles }

\* [...new Set(toProcess)]: first occurrences, in order
RECURSIVE Unique(_)
Unique(paths) ==
    IF paths = <<>> THEN <<>>
    ELSE LET front == Unique(SubSeq(paths, 1, Len(paths) - 1))
         IN IF Last(paths) \in Range(front) THEN front ELSE Append(front, Last(paths))

SettlesOf(filePath) ==
    LET i == CHOOSE k \in 1..Len(argvRefs) : argvRefs[k].path = filePath
    IN argvRefs[i].settles

MainInit ==
    /\ ExportIdle /\ DisplayIdle /\ FnIdle /\ MetaIdle /\ FtfIdle /\ OverlapIdle
    /\ argvRefs \in CommandLines
    /\ apiJson \in BOOLEAN
    /\ mainPc = "resolving"
    /\ refIndex = 0
    /\ toProcess = <<>>
    /\ uniquePaths = <<>>
    /\ hasErrors = FALSE
    /\ fileIndex = 0
    /\ exitCode = 0

MainUntouched ==
    UNCHANGED <<argvRefs, apiJson, exportVars, displayVars, fnVars, metaVars, ftfVars,
                overlapVars>>

\* if (inputs.length === 0) { CLI.showHelp(); process.exit(0); }
MainNoInputs ==
    /\ mainPc = "resolving"
    /\ Len(argvRefs) = 0
    /\ mainPc' = "exited"
    /\ exitCode' = 0
    /\ UNCHANGED <<refIndex, toProcess, uniquePaths, hasErrors, fileIndex>>
    /\ MainUntouched

\* one turn of: for (const input of inputs) { switch (result.type) ... }
MainResolve ==
    /\ mainPc = "resolving"
    /\ refIndex < Len(argvRefs)
    /\ LET r == argvRefs[refIndex + 1] IN
         IF r.resolves \in {"file", "match"}
         THEN toProcess' = Append(toProcess, r.path) /\ UNCHANGED hasErrors
         ELSE hasErrors' = TRUE /\ UNCHANGED toProcess
    /\ refIndex' = refIndex + 1
    /\ UNCHANGED <<mainPc, uniquePaths, fileIndex, exitCode>>
    /\ MainUntouched

\* after the loop: exit when nothing is left to process, else deduplicate and
\* go to the export or the display loop
MainResolved ==
    /\ mainPc = "resolving"
    /\ Len(argvRefs) > 0 /\ refIndex = Len(argvRefs)
    /\ IF Len(toProcess) = 0
       THEN /\ mainPc' = "exited"
            /\ exitCode' = IF hasErrors THEN 1 ELSE 0
            /\ UNCHANGED uniquePaths
       ELSE /\ uniquePaths' = Unique(toProcess)
            /\ mainPc' = IF apiJson THEN "exporting" ELSE "processing"
            /\ UNCHANGED exitCode
    /\ UNCHANGED <<refIndex, toProcess, hasErrors, fileIndex>>
    /\ MainUntouched

\* one turn of the export loop: try { await exporter.extract } catch { hasErrors = true }
MainExportFile ==
    /\ mainPc = "exporting"
    /\ fileIndex < Len(uniquePaths)
    /\ hasErrors' = (hasErrors \/ SettlesOf(uniquePaths[fileIndex + 1]) = "rejected")
    /\ fileIndex' = fileIndex + 1
    /\ UNCHANGED <<mainPc, refIndex, toProcess, uniquePaths, exitCode>>
    /\ MainUntouched

\* console.log(JSON.stringify({ messages: allMessages }, null, 2)); return;
MainExportOutput ==
    /\ mainPc = "exporting"
    /\ fileIndex = Len(uniquePaths)
    /\ mainPc' = "exited"
    /\ exitCode' = 0
    /\ UNCHANGED <<refIndex, toProcess, uniquePaths, hasErrors, fileIndex>>
    /\ MainUntouched

\* one turn of the display loop: try { await processor.process } catch { hasErrors = true }
MainProcessFile ==
    /\ mainPc = "processing"
    /\ fileIndex < Len(uniquePaths)
    /\ hasErrors' = (hasErrors \/ SettlesOf(uniquePaths[fileIndex + 1]) = "rejected")
    /\ fileIndex' = fileIndex + 1
    /\ UNCHANGED <<mainPc, refIndex, toProcess, uniquePaths, exitCode>>
    /\ MainUntouched

\* if (hasErrors) process.exit(1); otherwise main returns
MainFinish ==
    /\ mainPc = "processing"
    /\ fileIndex = Len(uniquePaths)
    /\ mainPc' = "exited"
    /\ exitCode' = IF hasErrors THEN 1 ELSE 0
    /\ UNCHANGED <<refIndex, toProcess, uniquePaths, hasErrors, fileIndex>>
    /\ MainUntouched

MainNext ==
    \/ MainNoInputs \/ MainResolve \/ MainResolved \/ MainExportFile \/ MainExportOutput
    \/ MainProcessFile \/ MainFinish

MainSpec == MainInit /\ [][MainNext]_vars

\* a reference that was not found, was ambiguous, gave a resolution error, or
\* whose file failed in processing
RefFailed(r) == r.resolves \notin {"file", "match"} \/ r.settles = "rejected"

\* C16: the process exits only after every reference has been attempted, and
\* its exit status is non-zero exactly when some reference failed, in display
\* mode and in API-export mode
C16_ExitStatus ==
    mainPc = "exited" /\ Len(argvRefs) > 0 =>
      /\ refIndex = Len(argvRefs)
      /\ fileIndex = Len(uniquePaths)
      /\ exitCode # 0 <=> \E i \in 1..Len(argvRefs) : RefFailed(argvRefs[i])

----------------------------------------------------------------------------
\* the lines read so far that expose a session id, among records of the kinds
ExposingLines(kinds) ==
    { i \in 1..Len(metaLines) :
        IsRecordOf(metaLines[i], kinds) /\ metaLines[i].value.sessionId # "" }

AnyKind == {"user", "assistant", "system", "summary", "file-history-snapshot"}

\* the identifying fields are those of line i
CapturedFrom(i) ==
    /\ metadata.sessionId = metaLines[i].value.sessionId
    /\ metadata.timestamp = metaLines[i].value.timestamp
    /\ metadata.projectPath = metaLines[i].value.cwd

FirstOf(S) == CHOOSE i \in S : \A k \in S : i <= k

\* C21 as stated: the identifying fields are those of the first record that
\* exposes a session id, whatever its kind, and stay so
C21_FirstExposingRecord ==
    IF ExposingLines(AnyKind) = {} THEN metadata.sessionId = NoSession
    ELSE CapturedFrom(FirstOf(ExposingLines(AnyKind)))

\* C21 amended: the identifying fields are those of the first user, assistant
\* or system record that exposes a session id, and stay so; without such a
\* record they stay null
C21_FirstExposingTurn ==
    IF ExposingLines({"user", "assistant", "system"}) = {}
    THEN /\ metadata.sessionId = NoSession
         /\ metadata.timestamp = NoText
         /\ metadata.projectPath = NoText
    ELSE CapturedFrom(FirstOf(ExposingLines({"user", "assistant", "system"})))

C21_Witness ==
    /\ metaPromise = "resolved"
    /\ Len(metaLines) = MaxMetaLines
    /\ ExposingLines({"user", "assistant", "system"}) = {2, 3}
    /\ metaLines[2].value.sessionId # metaLines[3].value.sessionId
    /\ metaLines[1].valid /\ metaLines[1].value.json = "object"
    /\ metaLines[1].value.type = "user"

----------------------------------------------------------------------------
\* SessionResolver.formatCandidates

MaxCandidates == 3     \* sessions in one candidate list

Candidate(id, agent, parent, modified) ==
    [sessionId |-> id, isAgent |-> agent, parentSessionId |-> parent, modified |-> modified]

\* the sessions a candidate list is drawn from: two regular sessions and two
\* agent sessions whose parent is missing, listed, or not in the list
CandidatePool ==
    { Candidate(id, FALSE, NoParent, m) : id \in {<<"a", "b">>, <<"A", "C">>}, m \in 1..MaxMtime }
    \cup { Candidate(AgentDash \o id, TRUE, parent, m) :
             id \in {<<"a">>, <<"b">>}, parent \in {NoParent, <<"a", "b">>, <<"x">>},
             m \in 1..MaxMtime }

\* candidate lists as handleCandidates hands them over: distinct sessions,
\* newest first
CandidateLists ==
    { SortNewestFirst(c) :
        c \in { d \in UNION { [1..n -> CandidatePool] : n \in 2..MaxCandidates } :
                  \A i, j \in 1..Len(d) : i # j => d[i].sessionId # d[j].sessionId } }

Reverse(seq) == [i \in 1..Len(seq) |-> seq[Len(seq) + 1 - i]]

Row(kind, c) == [kind |-> kind, sessionId |-> c.sessionId, modified |-> c.modified]

\* the rows of the table, without the header, the rule and the closing count
FormatCandidates(candidates) ==
    LET regularSessions == Reverse(SelectSeq(candidates, LAMBDA c : ~c.isAgent))
        agentSessions == SelectSeq(candidates, LAMBDA c : c.isAgent)
        ChildAgents(session) ==
            SelectSeq(agentSessions,
                      LAMBDA a : a.parentSessionId # NoParent
                                 /\ a.parentSessionId = session.sessionId)
        orphanAgents ==
            SelectSeq(agentSessions,
                      LAMBDA a : ~\E k \in 1..Len(regularSessions) :
                                    regularSessions[k].sessionId = a.parentSessionId)
        nested == [k \in 1..Len(regularSessions) |->
                     <<Row("session", regularSessions[k])>>
                     \o [j \in 1..Len(ChildAgents(regularSessions[k])) |->
                           Row("child", ChildAgents(regularSessions[k])[j])]]
    IN [rows |-> ConcatAll(nested)
                 \o [j \in 1..Len(orphanAgents) |-> Row("orphan", orphanAgents[j])],
        count |-> Len(regularSessions) + Len(orphanAgents)]

FormatInit ==
    /\ ExportIdle /\ DisplayIdle /\ CliIdle
    /\ fnInput \in CandidateLists
    /\ fnOutput = <<>>
    /\ fnDone = FALSE

ApplyFormatCandidates ==
    /\ ~fnDone
    /\ fnOutput' = FormatCandidates(fnInput)
    /\ fnDone' = TRUE
    /\ UNCHANGED <<fnInput, exportVars, displayVars, cliVars>>

FormatNext == ApplyFormatCandidates

FormatSpec == FormatInit /\ [][FormatNext]_vars

\* the rows that stand for a session of their own (not nested under a parent)
SessionRows == SelectSeq(fnOutput.rows, LAMBDA r : r.kind # "child")

\* C22: the session rows run from the oldest to the newest candidate, the
\* most recently modified candidate on the last one, for lists with and
\* without agent sessions
C22_OldestFirst ==
    fnDone =>
      /\ \A i, j \in 1..Len(SessionRows) :
           i < j => SessionRows[i].modified <= SessionRows[j].modified
      /\ \A k \in 1..Len(fnInput) :
           fnInput[k].modified <= SessionRows[Len(SessionRows)].modified

----------------------------------------------------------------------------
\* A whole run of ApiExporter.extract over a file that is read to its end:
\* the 'line' handler on every line, then the 'close' handler
RECURSIVE HandleLines(_, _)
HandleLines(st, ls) ==
    IF ls = <<>> THEN st ELSE HandleLines(OnLine(st, Head(ls)), Tail(ls))

ExtractMessages(ls) ==
    LET st == HandleLines([messages |-> <<>>, pending |-> NoPending, hasSummaries |-> FALSE,
                           sessionId |-> NoSession, thrown |-> FALSE], ls)
    IN CloseHandler(st.messages, st.pending).messages

\* an exported message written back as an input record: {type: role, message}
AsRecord(m) == ExportLineOf(TRUE, m.role, FALSE, NoRequest, NoSession, m.content)

\* C23: exporting the exported messages again, one record per message, gives
\* the same messages
C23_RoundTrip ==
    Delivered => ExtractMessages([i \in 1..Len(result) |-> AsRecord(result[i])]) = result

----------------------------------------------------------------------------
AssistantCount(msgs) == Cardinality({ i \in 1..Len(msgs) : msgs[i].role = "assistant" })

\* this step reads a line that ends the open turn: a user record, or an
\* assistant record of another response
TurnEndingLine ==
    /\ Len(lines') = Len(lines) + 1
    /\ IsTurn(Last(lines'))
    /\ \/ Last(lines').type = "user"
       \/ /\ Last(lines').type = "assistant"
          /\ Last(lines').requestId # pendingAssistant.requestId

\* this step is the end of the stream
StreamEnds == streamState = "open" /\ streamState' \in {"ended", "errored"}

\* C24: the open turn is pushed to the messages exactly once, as the next
\* message, by the step that ends it (an assistant record of another
\* response, a user record, or the end of the stream), and no other step
\* pushes an assistant message
C24_FlushedOnce ==
    [][IF pendingAssistant.open /\ (TurnEndingLine \/ StreamEnds)
       THEN /\ Len(messages') > Len(messages)
            /\ SubSeq(messages', 1, Len(messages)) = messages
            /\ messages'[Len(messages) + 1]
                 = Message("assistant", ArrayContent(pendingAssistant.content))
            /\ AssistantCount(messages') = AssistantCount(messages) + 1
       ELSE AssistantCount(messages') = AssistantCount(messages)]_vars

C24_Witness ==
    /\ streamState = "ended"
    /\ Delivered
    /\ Len(result) = 4
    /\ result[1].role = "assistant" /\ result[2].role = "assistant"
    /\ result[3].role = "user" /\ result[4].role = "assistant"

----------------------------------------------------------------------------
\* this step reads a user record that is not a sidechain record
ReadsUserRecord ==
    /\ Len(lines') = Len(lines) + 1
    /\ IsTurn(Last(lines'))
    /\ Last(lines').type = "user"

\* content as a list of parts, a plain string as one text part
AsParts(content) ==
    IF content.shape = "string" THEN <<Part("text", content.text)>> ELSE content.parts

\* C25: a user record first flushes the open accumulator as an assistant
\* message, then is merged into a last user message or appended as a new
\* one; afterwards no accumulator is open and the last message is a user
\* message that ends with the record's content
C25_UserRecordStep ==
    [][ReadsUserRecord =>
         LET record == Last(lines')
             flushed == IF pendingAssistant.open
                        THEN Append(messages,
                                    Message("assistant", ArrayContent(pendingAssistant.content)))
                        ELSE messages
             n == Len(flushed)
         IN /\ ~pendingAssistant'.open
            /\ IF n > 0 /\ flushed[n].role = "user"
               THEN /\ Len(messages') = n
                    /\ SubSeq(messages', 1, n - 1) = SubSeq(flushed, 1, n - 1)
                    /\ messages'[n].role = "user"
                    /\ messages'[n].content.shape = "array"
                    /\ messages'[n].content.parts
                         = AsParts(flushed[n].content) \o AsParts(record.content)
               ELSE messages' = Append(flushed, Message("user", record.content))
            /\ Last(messages').role = "user"
            /\ LET have == AsParts(Last(messages').content)
                   want == AsParts(record.content)
               IN /\ Len(have) >= Len(want)
                  /\ SubSeq(have, Len(have) - Len(want) + 1, Len(have)) = want]_vars

C25_Witness ==
    /\ Len(lines) = 3
    /\ IsChunk(lines[1])
    /\ IsTurn(lines[2]) /\ lines[2].type = "user" /\ lines[2].content.shape = "string"
    /\ IsTurn(lines[3]) /\ lines[3].type = "user" /\ lines[3].content.shape = "array"
    /\ Len(messages) = 2
    /\ messages[1].role = "assistant"
    /\ messages[2].role = "user"
    /\ Len(AsParts(messages[2].content)) >= 2
    /\ ~pendingAssistant.open

----------------------------------------------------------------------------
\* a decoded record the skip rules apply to
IsSkipped(line) ==
    /\ line.valid
    /\ line.type # "null"
    /\ (line.type \in {"summary", "system"} \/ line.isSidechain)

IsSummary(line) == line.valid /\ line.type = "summary"

----------------------------------------------------------------------------
\* the sessions a result hands back
Returned(r) ==
    CASE r.type = "match" -> {r.session}
      [] r.type = "candidates" -> Range(r.candidates)
      [] OTHER -> {}

AgentPrefix == StartsWith(ToLowerCase(fnInput.input), AgentDash)

\* the readable agent sessions whose id starts with the reference
MatchingAgents ==
    { s \in ReadableSessions :
        s.isAgent /\ StartsWith(ToLowerCase(s.sessionId), ToLowerCase(fnInput.input)) }

\* C27: with agents excluded, a prefix search for 'agent-...' in any letter
\* case still returns the matching agent sessions, every other lookup
\* returns no agent session, and findByPrefix leaves includeAgents as it
\* found it whether it returns or throws
C27_AgentPrefix ==
    fnDone /\ ~fnInput.options.includeAgents =>
      LET r == fnOutput.result
          found == FindByPrefix(fnInput.fs, fnInput.options, fnInput.input)
      IN /\ ByPrefix /\ AgentPrefix /\ fnInput.fs.root = "ok" =>
              /\ ~found.threw
              /\ Range(found.sessions) = MatchingAgents
              /\ Returned(r) \subseteq MatchingAgents
              /\ MatchingAgents # {} => Returned(r) # {}
              /\ ~fnInput.options.latest => Returned(r) = MatchingAgents
         /\ ~(ByPrefix /\ AgentPrefix) => \A s \in Returned(r) : ~s.isAgent
         /\ found.includeAgents = fnInput.options.includeAgents

C27_Witness ==
    /\ fnDone
    /\ ~fnInput.options.includeAgents
    /\ fnInput.input = <<"A", "g", "e", "n", "t", "-">>
    /\ fnOutput.result.type = "match"
    /\ fnOutput.result.session.isAgent

----------------------------------------------------------------------------
\* a line of the agent file that decodes to a record exposing a session id
ExposesSessionId(l) == l.valid /\ l.json = "object" /\ l.sessionId # NoParent

\* the parent an agent file names: the session id of its first exposing
\* line, nothing when it has none or cannot be read
ParentNamed(f) ==
    IF f.readable /\ \E i \in 1..Len(f.lines) : ExposesSessionId(f.lines[i])
    THEN f.lines[FirstOf({ i \in 1..Len(f.lines) : ExposesSessionId(f.lines[i]) })].sessionId
    ELSE NoParent

\* the same file system with an agent file that reads as empty
WithEmptyAgentFile(fs) == [fs EXCEPT !.agentFile = [readable |-> TRUE, lines |-> <<>>]]

\* C28: in every session a scan returns, isAgent says whether the file name
\* starts with 'agent-'; a non-agent session has no parent; an agent session
\* has the session id of the first line of its file exposing one, no later
\* line being read, or none when there is no such line or the file cannot
\* be read; and an unreadable agent file removes no session from the result
C28_AgentParent ==
    fnDone =>
      LET f == fnInput.fs.agentFile
          hit == FirstSessionId(f.lines)
      IN /\ \A s \in Returned(fnOutput.result) :
              /\ s.isAgent <=> StartsWith(s.sessionId, AgentDash)
              /\ ~s.isAgent => s.parentSessionId = NoParent
              /\ s.isAgent => s.parentSessionId = ParentNamed(f)
         /\ hit.value # NoParent =>
              /\ ExposesSessionId(f.lines[hit.read])
              /\ \A i \in 1..(hit.read - 1) : ~ExposesSessionId(f.lines[i])
         /\ hit.value = NoParent => hit.read = Len(f.lines)
         /\ ~f.readable =>
              fnOutput.result
                = Resolve(WithEmptyAgentFile(fnInput.fs), fnInput.options,
                          fnInput.cwd, fnInput.input).result
         /\ fnInput.fs.root = "ok" =>
              Range(ScanSessions(fnInput.fs, TRUE).sessions) = ReadableSessions

C28_Witness ==
    /\ fnDone
    /\ fnOutput.result.type = "candidates"
    /\ Len(fnInput.fs.agentFile.lines) = 5
    /\ \E s \in Range(fnOutput.result.candidates) :
         s.isAgent /\ s.parentSessionId = <<"a", "b">>
    /\ \E s \in Range(fnOutput.result.candidates) : ~s.isAgent

\* an agent file that cannot be read, its session listed among the others
C28_UnreadableListed ==
    /\ fnDone
    /\ ~fnInput.fs.agentFile.readable
    /\ fnOutput.result.type = "candidates"
    /\ \E s \in Range(fnOutput.result.candidates) : s.isAgent

----------------------------------------------------------------------------
\* C29: extractContent returns a sequence and never raises for any value
\* the line decoder produces: a value of unknown or missing kind, a JSON
\* value that is not an object (null included) gives the empty sequence, and
\* a system, summary or parse_error record gives exactly one block
C29_ExtractContentTotal ==
    \A i \in 1..Len(records) :
      /\ ~ThrowsOnProperty(records[i])
      /\ TypeOf(records[i]) \notin {"assistant", "user", "system", "summary", "parse_error"}
           => ExtractContent(records[i]) = <<>>
      /\ TypeOf(records[i]) \in {"system", "summary", "parse_error"}
           => Len(ExtractContent(records[i])) = 1

----------------------------------------------------------------------------
\* Two findByPrefix calls on one SessionResolver.  A call runs from one
\* await to the next without interruption; between two awaits of one call
\* the other call may run.

\* the entries of the project directory both calls scan, in directory order
ScannedFiles == <<"agent", "session", "agent">>

\* The loop of scanProjectDir from entry pos up to its next await: an agent
\* entry is skipped when this.includeAgents is false (no await), any other
\* entry is kept and its stat awaited; past the last entry the scan returns.
RECURSIVE ScanUntilAwait(_, _, _, _)
ScanUntilAwait(pos, include, saw, listed) ==
    IF pos > Len(ScannedFiles)
    THEN [pos |-> pos, returned |-> TRUE, saw |-> saw, listed |-> listed]
    ELSE IF ScannedFiles[pos] = "agent" /\ ~include
    THEN ScanUntilAwait(pos + 1, include, saw \cup {include}, listed)
    ELSE [pos |-> pos + 1, returned |-> FALSE,
          saw |-> IF ScannedFiles[pos] = "agent" THEN saw \cup {include} ELSE saw,
          listed |-> Append(listed, pos)]

OverlapInit ==
    /\ ExportIdle /\ DisplayIdle /\ FnIdle /\ MetaIdle /\ MainIdle /\ FtfIdle
    /\ configured \in BOOLEAN
    /\ thisIncludeAgents = configured
    /\ callAgentPrefix \in [Calls -> BOOLEAN]
    /\ callPc = [c \in Calls |-> "idle"]
    /\ callOriginal = [c \in Calls |-> configured]
    /\ callPos = [c \in Calls |-> 1]
    /\ callListed = [c \in Calls |-> <<>>]
    /\ callSaw = [c \in Calls |-> {}]

OverlapUntouched ==
    UNCHANGED <<configured, callAgentPrefix, exportVars, displayVars, fnVars, metaVars,
                mainVars, ftfVars>>

\* findByPrefix from its first statement to the first await of scanSessions
FindByPrefixEnter(c) ==
    /\ callPc[c] = "idle"
    /\ callOriginal' = [callOriginal EXCEPT ![c] = thisIncludeAgents]
    /\ thisIncludeAgents' = IF callAgentPrefix[c] THEN TRUE ELSE thisIncludeAgents
    /\ callPc' = [callPc EXCEPT ![c] = "scanning"]
    /\ UNCHANGED <<callPos, callListed, callSaw>>
    /\ OverlapUntouched

\* the scan resumes after an await and runs to its next await, or returns
\* and findByPrefix restores this.includeAgents in its finally block
FindByPrefixResume(c) ==
    /\ callPc[c] = "scanning"
    /\ LET run == ScanUntilAwait(callPos[c], thisIncludeAgents, callSaw[c], callListed[c])
       IN /\ callPos' = [callPos EXCEPT ![c] = run.pos]
          /\ callSaw' = [callSaw EXCEPT ![c] = run.saw]
          /\ callListed' = [callListed EXCEPT ![c] = run.listed]
          /\ IF run.returned
             THEN /\ thisIncludeAgents' = callOriginal[c]
                  /\ callPc' = [callPc EXCEPT ![c] = "done"]
             ELSE UNCHANGED <<thisIncludeAgents, callPc>>
    /\ UNCHANGED callOriginal
    /\ OverlapUntouched

OverlapNext == \E c \in Calls : FindByPrefixEnter(c) \/ FindByPrefixResume(c)

OverlapSpec == OverlapInit /\ [][OverlapNext]_vars

\* the agent-exclusion setting that applies to call c alone
OwnSetting(c) == configured \/ callAgentPrefix[c]

\* C30: when two calls overlap, the scan of each reads only the setting
\* that applies to that call, and once both have finished this.includeAgents
\* is the configured value
C30_CallsIsolated ==
    /\ \A c \in Calls : callSaw[c] \subseteq {OwnSetting(c)}
    /\ (\A c \in Calls : callPc[c] = "done") => thisIncludeAgents = configured

\* the calls do not overlap: one is idle or done whenever the other scans
Sequential == \A c, d \in Calls : c # d /\ callPc[c] = "scanning" => callPc[d] # "scanning"

====
